---- MODULE Spec2Model ----
(***************************************************************************)
(* rs_ingester: the load worker pool, the warehouse adapter (Redshift     *)
(* backend), the schema migrator and the metadata store they share.       *)
(*                                                                         *)
(* The metadata store (package metadata) and the load client (package     *)
(* loadclient) are not part of the sources at hand; their operations are  *)
(* modelled from the specification (section 4.1, 4.3) and marked so.      *)
(***************************************************************************)
EXTENDS Integers, FiniteSets, Sequences, TLC

VARIABLES
    tsv,              \* metadata store: URLs of the rows of table tsv
    mstate,           \* manifest uuid -> "none" | "Pending" | "Loading" | "Done"
    murls,            \* manifest uuid -> member fragment URLs
    forceLoad,        \* metadata store: tables with a force_load row
    chan,             \* the LoadReady channel (manifests emitted, not yet received)
    wpc,              \* worker -> position in loadWorker.Work
    wload,            \* worker -> uuid of the manifest it received (0: none)
    lockHolder,       \* RedshiftBackend.tableLocks: table -> holder of its mutex
    rows,             \* warehouse: table -> versions recorded in infra.table_version
    exists,           \* warehouse: table -> it is an ordinary table of schema logs
    copyLog,          \* warehouse: manifest uuid -> states of its ended COPY transactions
    cache,            \* the Version Cache (versions.GetterSetter): table -> version
    migrationStarted, \* Migrator.migrationStarted, as the age of the timestamp
    mpc,              \* position of the migrator goroutine
    mrem,             \* outdated tables the running tick has still to visit
    mcur,             \* table, target version, ops and isForced of the call in flight
    crashes,          \* number of process restarts so far
    reply,            \* the value last sent on a VersionIncrement's Response channel
    probe,            \* isOffPeakHours alone: configuration, hour and answer
    filter,           \* ingress: the shared dedup filter, most recent message ID first
    handler,          \* ingress: listener -> position and findings of its rdsPipeHandler
    iTables,          \* ingress: listener -> rdsPipeHandler.Tables, the tables it has seen
    bpcache,          \* ingress: the Metadata Loader's cached document
    deliveries,       \* message ID -> deliveries by the queue so far
    inserted,         \* message ID -> InsertLoad calls of its handlings that added a row
    evicted,          \* message IDs the filter has dropped for lack of room
    aged,             \* metadata store: rows of tsv that have reached LoadAgeTrigger
    sdpc,             \* position of the goroutine of main that waits for SIGINT
    lpc,              \* the Metadata Loader: "new", "failed", "ready", "cranking", "closed"
    ltime,            \* the Metadata Loader: retry delays slept since the last success
    ipc,              \* position of main of the ingress process
    lsq,              \* CheckLoadStatus alone: the four system views and the answer
    poolSize,         \* the flag n_workers
    lockLock,         \* RedshiftBackend.lockLock: its holder
    tableLocks,       \* RedshiftBackend.tableLocks: table -> the mutex stored (0: no entry)
    mutexes,          \* mutex -> its holder, in the order the mutexes were made
    gpc               \* caller -> position in ManifestCopy or ApplyOperations

vars == <<tsv, mstate, murls, forceLoad, chan, wpc, wload, lockHolder, rows,
          exists, copyLog, cache, migrationStarted, mpc, mrem, mcur, crashes,
          reply, probe, filter, handler, iTables, bpcache, deliveries, inserted,
          evicted, aged, sdpc, lpc, ltime, ipc, lsq, poolSize, lockLock,
          tableLocks, mutexes, gpc>>

storeVars == <<tsv, mstate, murls, forceLoad, chan>>
workerVars == <<wpc, wload>>
warehouseVars == <<rows, exists, copyLog>>
migratorVars == <<cache, migrationStarted, mpc, mrem, mcur>>
ingressVars == <<filter, handler, iTables, bpcache, deliveries, inserted, evicted>>
loaderVars == <<lpc, ltime, ipc>>
registryVars == <<lockLock, tableLocks, mutexes, gpc>>
extraVars == <<lsq, poolSize, registryVars>>
sideVars == <<aged, sdpc, loaderVars, extraVars>>
auxVars == <<probe, ingressVars, sideVars>>

----------------------------------------------------------------------------
(* Bounds of the model *)

NumWorkers == 2
MaxURL == 4
MaxManifests == 2
MaxVersion == 1
MaxCrashes == 1
MaxIncrement == 3
NumListeners == 2
MaxMsg == 2
MaxDeliveries == 2
MaxInitRetries == 3
MaxOps == 2

(* Program configuration (flags of main.go) *)

LoadCountTrigger == 2
WaitProcessorPeriod == 2
offpeakStartHour == 3
offpeakDurationHours == 8
DedupCapacity == 1

Tables == {"T1", "T2"}
Workers == 1..NumWorkers
URLs == 1..MaxURL
UUIDs == 1..MaxManifests
Versions == 0..MaxVersion
Hours == 0..23
NoVersion == -1
NotStarted == -1
\* Who holds a table's mutex.
Free == <<"free", 0>>
Migrator == <<"migrator", 0>>
Worker(w) == <<"worker", w>>

\* The fragments the producers may announce: URL u is a TSV of table
\* FragTable(u) written at schema version FragVersion(u).
FragTable(u) == IF u = 2 THEN "T2" ELSE "T1"

FragVersion(u) == IF u = 3 THEN 1 ELSE 0

SetMax(S) == CHOOSE x \in S : \A y \in S : y <= x

----------------------------------------------------------------------------
(* The warehouse adapter: package backend (RedshiftBackend) and package   *)
(* redshift (RSConnection, CheckLoadStatus).                              *)

\* TableVersions: SELECT name, MAX(version) FROM infra.table_version GROUP BY
\* name.  A table without a row is absent from the map (NoVersion here).
TableVersions(r) ==
    [t \in Tables |-> IF r[t] = {} THEN NoVersion ELSE SetMax(r[t])]

\* TableExists: the catalog lookup in schema logs.
TableExists(t) == exists[t]

expectAnyVersion(r, table, version) == TRUE

\* expectVersion: nil (TRUE) iff MAX(version) of the table is `version`;
\* with no row at all, iff version = -1.
expectVersion(r, table, version) ==
    IF r[table] = {} THEN version = -1 ELSE SetMax(r[table]) = version

ExecFnIgnoringCommit(workOK, commitOK) == workOK

\* ExecFnInTransaction: Begin, work, then Rollback on a work error and Commit
\* otherwise; it returns nil only when work returned nil and Commit did.
ExecFnInTransaction(workOK, commitOK) == workOK /\ commitOK

LockTableNoWait(table, who) == lockHolder' = [lockHolder EXCEPT ![table] = who]

\* getTableLock + lock.Lock(): the mutex of `table` is taken when it is free
\* (the caller blocks until then).
LockTable(table, who) ==
    /\ lockHolder[table] = Free
    /\ lockHolder' = [lockHolder EXCEPT ![table] = who]

\* defer lock.Unlock()
UnlockTable(table) == lockHolder' = [lockHolder EXCEPT ![table] = Free]

\* The states a COPY transaction of a manifest can be seen in through the
\* warehouse's system views: "running" (in STV_RECENTS, not Done; "orphan" is
\* the same seen after its client died), "executed" (in STL_QUERY, neither
\* committed nor undone), "aborted" (STL_QUERY.aborted = 1), "committed"
\* (COMMIT in STL_UTILITYTEXT), "undone" (in STL_UNDONE).
AttemptStates == {"running", "orphan", "executed", "aborted", "committed", "undone"}

\* CheckLoadStatus over the transactions `log` of one manifest URL; `pick` is
\* the row of STL_QUERY that QueryRow happens to return.
CheckLoadStatus(log, pick) ==
    IF log \cap {"running", "orphan"} # {} THEN "InProgress"
    ELSE IF log = {} THEN "NotFound"
    ELSE IF pick = "aborted" THEN "Failed"
    ELSE IF pick = "committed" THEN "Complete"
    ELSE IF pick = "undone" THEN "Failed"
    ELSE "InProgress"

\* LoadCheck: CheckLoadStatus in a transaction; the rows QueryRow may return.
LoadCheck(log) == {CheckLoadStatus(log, pick) : pick \in (IF log = {} THEN {"none"} ELSE log)}

----------------------------------------------------------------------------
(* The metadata store (package metadata; modelled from the specification) *)

Live(m) == mstate[m] \in {"Pending", "Loading"}

ManifestTable(m) == FragTable(CHOOSE u \in murls[m] : TRUE)

\* A row of tsv that belongs to a manifest which is not Done.
Owned(u) == \E m \in UUIDs : Live(m) /\ u \in murls[m]

\* InsertLoad: insert into tsv, idempotent on the URL.
InsertLoad(u) ==
    /\ u \notin tsv
    /\ tsv' = tsv \cup {u}
    /\ UNCHANGED <<mstate, murls, forceLoad, chan>>
    /\ UNCHANGED <<workerVars, lockHolder, warehouseVars, migratorVars, crashes, reply, auxVars>>

ReadyRowsOwnedToo(t) ==
    {u \in tsv : FragTable(u) = t /\ FragVersion(u) = cache[t]}

\* The rows LoadReady gathers for a table: the unowned rows at the table's
\* current version; rows of any other version are held.
ReadyRows(t) ==
    {u \in tsv : FragTable(u) = t /\ FragVersion(u) = cache[t] /\ ~Owned(u)}

TriggeredByAnyRow(t, oldEnough) == ReadyRows(t) # {}

\* The triggers of a load; oldEnough: the oldest ready row has reached
\* LoadAgeTrigger.
Triggered(t, oldEnough) ==
    /\ ReadyRows(t) # {}
    /\ \/ Cardinality(ReadyRows(t)) >= LoadCountTrigger
       \/ oldEnough
       \/ t \in forceLoad

FreshUUID == CHOOSE m \in UUIDs : mstate[m] = "none" /\ \A k \in UUIDs : k < m => mstate[k] # "none"

\* LoadReady, assembly: in one transaction the ready rows of a triggered
\* table become a new manifest, the force_load row is cleared and the
\* manifest is emitted on the channel in state Loading.
LoadReadyAssemble(t, oldEnough) ==
    /\ chan = <<>>
    /\ Triggered(t, oldEnough)
    /\ \E m \in UUIDs : mstate[m] = "none"
    /\ mstate' = [mstate EXCEPT ![FreshUUID] = "Loading"]
    /\ murls' = [murls EXCEPT ![FreshUUID] = ReadyRows(t)]
    /\ forceLoad' = forceLoad \ {t}
    /\ chan' = <<FreshUUID>>
    /\ UNCHANGED tsv
    /\ UNCHANGED <<workerVars, lockHolder, warehouseVars, migratorVars, crashes, reply, auxVars>>

\* LoadReady, re-lease: a manifest reset to Pending is emitted again.
LoadReadyRelease(m) ==
    /\ chan = <<>>
    /\ mstate[m] = "Pending"
    /\ mstate' = [mstate EXCEPT ![m] = "Loading"]
    /\ chan' = <<m>>
    /\ UNCHANGED <<tsv, murls, forceLoad>>
    /\ UNCHANGED <<workerVars, lockHolder, warehouseVars, migratorVars, crashes, reply, auxVars>>

LoadDoneKeepingRows(uuid) ==
    /\ mstate' = [mstate EXCEPT ![uuid] = "Done"]
    /\ UNCHANGED tsv

\* LoadDone: deletes the manifest and the tsv rows it references.
LoadDone(uuid) ==
    /\ mstate' = [mstate EXCEPT ![uuid] = "Done"]
    /\ tsv' = tsv \ murls[uuid]

\* LoadError: back to Pending, eligible for another lease.
LoadError(uuid) ==
    /\ mstate' = [mstate EXCEPT ![uuid] = "Pending"]
    /\ UNCHANGED tsv

\* TSVVersionExists: is any row of (table, version) still in tsv.
TSVVersionExists(table, version) ==
    \E u \in tsv : FragTable(u) = table /\ FragVersion(u) = version

\* Versions: for each table with a row in tsv, the maximum declared version.
StoreVersions ==
    [t \in Tables |->
        IF \E u \in tsv : FragTable(u) = t
        THEN SetMax({FragVersion(u) : u \in {x \in tsv : FragTable(x) = t}})
        ELSE NoVersion]

\* ForceLoad (POST /control/ingest): insert a force_load row if absent.
ForceIngest(t) ==
    /\ t \notin forceLoad
    /\ forceLoad' = forceLoad \cup {t}
    /\ UNCHANGED <<tsv, mstate, murls, chan>>
    /\ UNCHANGED <<workerVars, lockHolder, warehouseVars, migratorVars, crashes, reply, auxVars>>

\* Time passes for a queued row: it reaches LoadAgeTrigger.
RowAges(u) ==
    /\ u \in tsv \ aged
    /\ aged' = aged \cup {u}
    /\ UNCHANGED <<storeVars, workerVars, lockHolder, warehouseVars, migratorVars,
                   crashes, reply, probe, ingressVars, sdpc, loaderVars, extraVars>>

\* The age trigger: the oldest ready row of the table has reached
\* LoadAgeTrigger.
OldestReached(t) == ReadyRows(t) \cap aged # {}

----------------------------------------------------------------------------
(* The load worker pool: loadWorker.Work of main.go *)

ReceiveWithoutTaking(w) ==
    /\ wpc[w] = "idle"
    /\ chan # <<>>
    /\ wload' = [wload EXCEPT ![w] = Head(chan)]
    /\ wpc' = [wpc EXCEPT ![w] = "got"]
    /\ UNCHANGED <<storeVars, lockHolder, warehouseVars, migratorVars, crashes, reply, auxVars>>

\* for load := range c: the worker receives the manifest at the head of the
\* channel, which takes it off the channel.
Receive(w) ==
    /\ wpc[w] = "idle"
    /\ chan # <<>>
    /\ wload' = [wload EXCEPT ![w] = Head(chan)]
    /\ chan' = Tail(chan)
    /\ wpc' = [wpc EXCEPT ![w] = "got"]
    /\ UNCHANGED <<tsv, mstate, murls, forceLoad>>
    /\ UNCHANGED <<lockHolder, warehouseVars, migratorVars, crashes, reply, auxVars>>

\* Loader.LoadManifest reaches ManifestCopy: the table's mutex is taken and
\* the COPY transaction begins.
ManifestCopyBegin(w) ==
    /\ wpc[w] = "got"
    /\ LockTable(ManifestTable(wload[w]), Worker(w))
    /\ wpc' = [wpc EXCEPT ![w] = "copying"]
    /\ UNCHANGED <<storeVars, wload, warehouseVars, migratorVars, crashes, reply, auxVars>>

\* Loader.LoadManifest fails before it reaches ManifestCopy.
LoadManifestFails(w, retryable) ==
    /\ wpc[w] = "got"
    /\ wpc' = [wpc EXCEPT ![w] = IF retryable THEN "retry" ELSE "perm"]
    /\ UNCHANGED <<storeVars, wload, lockHolder, warehouseVars, migratorVars, crashes, reply, auxVars>>

\* ManifestCopy returns: the transaction committed (possible only when the
\* table exists), or it was rolled back; the mutex is released.
ManifestCopyEnd(w, copyOK, commitOK, retryable) ==
    /\ wpc[w] = "copying"
    /\ copyOK => TableExists(ManifestTable(wload[w]))
    /\ LET ok == ExecFnInTransaction(copyOK, commitOK)
           seen == IF ~copyOK THEN "aborted" ELSE IF commitOK THEN "committed" ELSE "undone"
       IN /\ copyLog' = [copyLog EXCEPT ![wload[w]] = @ \cup {seen}]
          /\ wpc' = [wpc EXCEPT ![w] =
                        IF ok THEN "ok" ELSE IF retryable THEN "retry" ELSE "perm"]
    /\ UnlockTable(ManifestTable(wload[w]))
    /\ UNCHANGED <<storeVars, wload, rows, exists, migratorVars, crashes, reply, auxVars>>

WorkFinishRetryingAll(w) ==
    /\ wpc[w] \in {"ok", "retry", "perm"}
    /\ CASE wpc[w] = "ok" -> LoadDone(wload[w])
         [] OTHER -> LoadError(wload[w])
    /\ wpc' = [wpc EXCEPT ![w] = "idle"]
    /\ wload' = [wload EXCEPT ![w] = 0]
    /\ UNCHANGED <<murls, forceLoad, chan>>
    /\ UNCHANGED <<lockHolder, warehouseVars, migratorVars, crashes, reply, auxVars>>

\* The rest of the loop body: LoadDone on success, LoadError on a retryable
\* error, neither on any other error.
WorkFinish(w) ==
    /\ wpc[w] \in {"ok", "retry", "perm"}
    /\ CASE wpc[w] = "ok" -> LoadDone(wload[w])
         [] wpc[w] = "retry" -> LoadError(wload[w])
         [] OTHER -> UNCHANGED <<mstate, tsv>>
    /\ wpc' = [wpc EXCEPT ![w] = "idle"]
    /\ wload' = [wload EXCEPT ![w] = 0]
    /\ UNCHANGED <<murls, forceLoad, chan>>
    /\ UNCHANGED <<lockHolder, warehouseVars, migratorVars, crashes, reply, auxVars>>

----------------------------------------------------------------------------
(* Schema operations (scoop_protocol.Operation) and what the backend      *)
(* makes of them.                                                          *)

Op(action, meta) == [Action |-> action, meta |-> meta]

\* The operation lists the schema registry may answer GetMigration with.
\* meta: ActionMetadata has both column_options and column_type.
OpLists ==
    { <<Op("ADD", TRUE)>>,
      <<Op("ADD", TRUE), Op("DROP_EVENT", FALSE)>>,
      <<Op("RENAME", FALSE)>>,
      <<Op("BOGUS", FALSE)>> }

RECURSIVE buildNewTableFrom(_, _)
buildNewTableFrom(ops, i) ==
    IF i > Len(ops) THEN "table"
    ELSE IF ops[i].Action = "DROP_EVENT" THEN "nil"
    ELSE IF ops[i].Action # "ADD" THEN "err"
    ELSE IF ~ops[i].meta THEN "err"
    ELSE buildNewTableFrom(ops, i + 1)

\* buildNewTable: "nil" for a list with a DROP_EVENT before any offending
\* operation (a nil table and no error), "err" for an operation that is not
\* an ADD or lacks its metadata, "table" otherwise.
buildNewTable(ops) == buildNewTableFrom(ops, 1)

\* applyOperation: every known action is accepted, any other is an error.
applyOperation(op) ==
    op.Action \in {"ADD", "DELETE", "RENAME", "REQUEST_DROP_EVENT", "DROP_EVENT",
                   "CANCEL_DROP_EVENT"}

----------------------------------------------------------------------------
(* The migrator: package migrator *)

\* CheckLoadStatus has not returned.
NoAnswer == [status |-> "none", err |-> FALSE]

\* CheckLoadStatus is not under examination.
NoQuery == [recents |-> 0, history |-> "none", commits |-> 0, undone |-> 0,
            errAt |-> 0, answer |-> NoAnswer]

\* A caller of the warehouse adapter that is in neither ManifestCopy nor
\* ApplyOperations.
NoLockCall == [pc |-> "idle", table |-> "none", mutex |-> 0]

\* The adapter as BuildRedshiftBackend returns it, with n_workers workers.
ExtraInit ==
    /\ lsq = NoQuery
    /\ poolSize = NumWorkers
    /\ lockLock = Free
    /\ tableLocks = [t \in Tables |-> 0]
    /\ mutexes = <<>>
    /\ gpc = [c \in {Migrator} \cup {Worker(w) : w \in Workers} |-> NoLockCall]

\* What the other specifications start from.
SideInit ==
    /\ aged = {}
    /\ sdpc = "sigc"
    /\ lpc = "cranking"
    /\ ltime = 0
    /\ ipc = "running"
    /\ ExtraInit

\* isOffPeakHours is not under examination.
NoProbe == [start |-> 0, duration |-> 0, hour |-> 0, answer |-> "none"]

NoCall == [table |-> "none", to |-> NoVersion, forced |-> FALSE, ops |-> <<>>, by |-> "none"]

isOffPeakHoursUnwrapped(start, duration, currentHour) ==
    start <= currentHour /\ currentHour < start + duration

\* isOffPeakHours of a migrator configured with offpeakStartHour = start and
\* offpeakDurationHours = duration, at UTC hour currentHour.
isOffPeakHoursAt(start, duration, currentHour) ==
    IF start + duration <= 24
    THEN start <= currentHour /\ currentHour < start + duration
    ELSE \/ start <= currentHour /\ currentHour < 24
         \/ 0 <= currentHour /\ currentHour < (start + duration) % 24

\* isOffPeakHours at UTC hour currentHour, as the process is configured.
isOffPeakHours(currentHour) ==
    isOffPeakHoursAt(offpeakStartHour, offpeakDurationHours, currentHour)

\* findTablesToMigrate: the tables with a queued TSV whose version is above
\* the cached one, or which the cache does not know.
findTablesToMigrate ==
    {t \in Tables : /\ StoreVersions[t] # NoVersion
                    /\ (cache[t] = NoVersion \/ StoreVersions[t] > cache[t])}

\* The errors one call of the tick can meet (at most the first one matters).
Faults == {"none", "GetMigration", "TableExists", "IsForceLoadRequested",
           "TableLocked", "TSVVersionExists", "ForceLoad"}

\* After the call for a table returns, the loop goes on to the next table,
\* or the tick is over.
Resume(rest) == IF rest = {} THEN "idle" ELSE "tick"

\* The ticker fires: findAndApplyMigrations starts with the outdated tables.
TickStart ==
    /\ mpc = "idle"
    /\ findTablesToMigrate # {}
    /\ mrem' = findTablesToMigrate
    /\ mpc' = "tick"
    /\ UNCHANGED <<cache, migrationStarted, mcur>>
    /\ UNCHANGED <<storeVars, workerVars, lockHolder, warehouseVars, crashes, reply, auxVars>>

\* The new version findAndApplyMigrations computes for an outdated table.
NewVersion(table) == IF cache[table] = NoVersion THEN 0 ELSE cache[table] + 1

\* TableLocked: some lock on the relation is outstanding in the warehouse, that
\* of a COPY of this process or one of another session (`other`).
TableLocked(table, other) ==
    \/ other
    \/ \E w \in Workers : wpc[w] = "copying" /\ ManifestTable(wload[w]) = table

GateIgnoringTableLock(table, offpeak, locked, fault) ==
    IF NewVersion(table) > 0 /\ ~offpeak
    THEN IF fault = "IsForceLoadRequested" THEN "skip"
         ELSE IF table \notin forceLoad THEN "skip"
         ELSE IF fault = "TableLocked" THEN "skip"
         ELSE "forced"
    ELSE "open"

\* The gate of findAndApplyMigrations (lines 236-262): "skip" (continue),
\* "forced" (on-peak, force load requested, table not locked) or "open".
Gate(table, offpeak, locked, fault) ==
    IF NewVersion(table) > 0 /\ ~offpeak
    THEN IF fault = "IsForceLoadRequested" THEN "skip"
         ELSE IF table \notin forceLoad THEN "skip"
         ELSE IF fault = "TableLocked" THEN "skip"
         ELSE IF TableLocked(table, locked) THEN "skip"
         ELSE "forced"
    ELSE "open"

isOldVersionClearedUnprobed(table, version, fault) ==
    IF fault = "TSVVersionExists" THEN "err" ELSE "cleared"

isOldVersionClearedWithoutForceLoad(table, version, fault) ==
    IF fault = "TSVVersionExists" THEN "err"
    ELSE IF ~TSVVersionExists(table, version) THEN "cleared"
    ELSE "held"

\* isOldVersionCleared: "cleared", "queued" (ForceLoad issued) or "err".
isOldVersionCleared(table, version, fault) ==
    IF fault = "TSVVersionExists" THEN "err"
    ELSE IF ~TSVVersionExists(table, version) THEN "cleared"
    ELSE IF fault = "ForceLoad" THEN "err"
    ELSE "queued"

migrateWithoutWait(table, to, ops, fault) ==
    IF fault = "GetMigration" THEN "err"
    ELSE IF fault = "TableExists" THEN "err"
    ELSE IF ~TableExists(table)
    THEN CASE buildNewTable(ops) = "err" -> "err"
           [] buildNewTable(ops) = "nil" -> "noop"
           [] OTHER -> "create"
    ELSE IF migrationStarted[table][to] = NotStarted THEN "record"
    ELSE IF isOldVersionCleared(table, to - 1, fault) = "cleared" THEN "apply"
    ELSE isOldVersionCleared(table, to - 1, fault)

\* What migrate(table, to, isForced) does up to its first blocking call:
\*   "err"      an error is returned, nothing changed
\*   "noop"     CreateTable was a no-op success (DROP_EVENT); the cache is set
\*   "create"   CreateTable opens its transaction
\*   "record"   the wait for the processor starts now
\*   "wait"     the wait has not elapsed
\*   "queued"   old-version TSVs are queued; ForceLoad was issued
\*   "held"     old-version TSVs are queued; nothing was done about them
\*   "apply"    ApplyOperations is called
migrate(table, to, ops, fault) ==
    IF fault = "GetMigration" THEN "err"
    ELSE IF fault = "TableExists" THEN "err"
    ELSE IF ~TableExists(table)
    THEN CASE buildNewTable(ops) = "err" -> "err"
           [] buildNewTable(ops) = "nil" -> "noop"
           [] OTHER -> "create"
    ELSE IF migrationStarted[table][to] = NotStarted THEN "record"
    ELSE IF migrationStarted[table][to] < WaitProcessorPeriod THEN "wait"
    ELSE IF isOldVersionCleared(table, to - 1, fault) = "cleared" THEN "apply"
    ELSE isOldVersionCleared(table, to - 1, fault)

timeoutMsByFlag(isForced, flagSet) ==
    IF isForced \/ flagSet THEN "onpeakMigrationTimeoutMs" ELSE "offpeakMigrationTimeoutMs"

\* The timeout migrate passes to ApplyOperations; flagSet: the table has a
\* force_load row at that moment.
timeoutMs(isForced, flagSet) ==
    IF isForced THEN "onpeakMigrationTimeoutMs" ELSE "offpeakMigrationTimeoutMs"

\* One iteration of the loop of findAndApplyMigrations for `table`.
MigrateTable(table, offpeak, locked, ops, fault) ==
    /\ mpc = "tick"
    /\ table \in mrem
    /\ mrem' = mrem \ {table}
    /\ LET to == NewVersion(table)
           gate == Gate(table, offpeak, locked, fault)
           did == IF gate = "skip" THEN "skip" ELSE migrate(table, to, ops, fault)
       IN /\ mpc' = CASE did = "create" -> "create"
                      [] did = "apply" -> "applywait"
                      [] OTHER -> Resume(mrem')
          /\ mcur' = IF did \in {"create", "apply"}
                     THEN [table |-> table, to |-> to, forced |-> (gate = "forced"),
                           ops |-> ops, by |-> "migrate"]
                     ELSE NoCall
          /\ cache' = IF did = "noop" THEN [cache EXCEPT ![table] = to] ELSE cache
          /\ migrationStarted' =
                IF did = "record"
                THEN [migrationStarted EXCEPT ![table][to] = 0]
                ELSE migrationStarted
          /\ forceLoad' = IF did = "queued" THEN forceLoad \cup {table} ELSE forceLoad
    /\ UNCHANGED <<tsv, mstate, murls, chan>>
    /\ UNCHANGED <<workerVars, lockHolder, warehouseVars, crashes, reply, auxVars>>

\* ApplyOperations takes the table's mutex and opens its transaction.
ApplyOperationsBegin ==
    /\ mpc = "applywait"
    /\ LockTable(mcur.table, Migrator)
    /\ mpc' = "apply"
    /\ UNCHANGED <<cache, migrationStarted, mrem, mcur>>
    /\ UNCHANGED <<storeVars, workerVars, warehouseVars, crashes, reply, auxVars>>

ApplyOperationsWorkSkippingUnknown(table, ops, targetVersion, sqlOK) ==
    /\ expectVersion(rows, table, targetVersion - 1)
    /\ sqlOK

\* The transaction of ApplyOperations: the version assertion, the timeout,
\* every operation, the version row.
ApplyOperationsWork(table, ops, targetVersion, sqlOK) ==
    /\ expectVersion(rows, table, targetVersion - 1)
    /\ \A i \in 1..Len(ops) : applyOperation(ops[i])
    /\ sqlOK

\* ApplyOperations returns and the mutex is released; on success migrate and
\* incrementVersion set the Version Cache.
ApplyOperationsEnd(sqlOK, commitOK) ==
    /\ mpc = "apply"
    /\ LET ok == ExecFnInTransaction(
                    ApplyOperationsWork(mcur.table, mcur.ops, mcur.to, sqlOK), commitOK)
       IN /\ rows' = IF ok THEN [rows EXCEPT ![mcur.table] = @ \cup {mcur.to}] ELSE rows
          /\ cache' = IF ok THEN [cache EXCEPT ![mcur.table] = mcur.to] ELSE cache
          /\ reply' = IF mcur.by # "incrementVersion" THEN reply
                       ELSE IF ok THEN "nil" ELSE "err"
    /\ UnlockTable(mcur.table)
    /\ mpc' = Resume(mrem)
    /\ mcur' = NoCall
    /\ UNCHANGED <<migrationStarted, mrem, exists, copyLog>>
    /\ UNCHANGED <<storeVars, workerVars, crashes, auxVars>>

CreateTableEndWithoutVersionRow(sqlOK, commitOK) ==
    /\ mpc = "create"
    /\ LET ok == ExecFnInTransaction(sqlOK /\ ~exists[mcur.table], commitOK)
       IN /\ exists' = IF ok THEN [exists EXCEPT ![mcur.table] = TRUE] ELSE exists
          /\ cache' = IF ok THEN [cache EXCEPT ![mcur.table] = mcur.to] ELSE cache
    /\ mpc' = Resume(mrem)
    /\ mcur' = NoCall
    /\ UNCHANGED <<migrationStarted, mrem, copyLog, lockHolder, rows>>
    /\ UNCHANGED <<storeVars, workerVars, crashes, reply, auxVars>>

\* CreateTable returns: CREATE TABLE and the version row in one transaction;
\* on success migrate sets the Version Cache.
CreateTableEnd(sqlOK, commitOK) ==
    /\ mpc = "create"
    /\ LET ok == ExecFnInTransaction(sqlOK /\ ~exists[mcur.table], commitOK)
       IN /\ rows' = IF ok THEN [rows EXCEPT ![mcur.table] = @ \cup {mcur.to}] ELSE rows
          /\ exists' = IF ok THEN [exists EXCEPT ![mcur.table] = TRUE] ELSE exists
          /\ cache' = IF ok THEN [cache EXCEPT ![mcur.table] = mcur.to] ELSE cache
    /\ mpc' = Resume(mrem)
    /\ mcur' = NoCall
    /\ UNCHANGED <<migrationStarted, mrem, copyLog, lockHolder>>
    /\ UNCHANGED <<storeVars, workerVars, crashes, reply, auxVars>>

incrementVersionUnchecked(table, version, fault) ==
    /\ mpc = "idle"
    /\ mpc' = "applywait"
    /\ mcur' = [table |-> table, to |-> version, forced |-> FALSE,
                ops |-> <<>>, by |-> "incrementVersion"]
    /\ UNCHANGED <<cache, migrationStarted, mrem, reply>>
    /\ UNCHANGED <<storeVars, workerVars, lockHolder, warehouseVars, crashes, auxVars>>

\* incrementVersion: a VersionIncrement request taken from the channel by
\* the loop.  An existing table, or a failed probe, is answered with an
\* error; otherwise ApplyOperations(table, nil, version, offpeak) is called.
incrementVersion(table, version, fault) ==
    /\ mpc = "idle"
    /\ IF fault = "TableExists" \/ TableExists(table)
       THEN /\ reply' = "err"
            /\ UNCHANGED <<mpc, mcur>>
       ELSE /\ mpc' = "applywait"
            /\ mcur' = [table |-> table, to |-> version, forced |-> FALSE,
                        ops |-> <<>>, by |-> "incrementVersion"]
            /\ UNCHANGED reply
    /\ UNCHANGED <<cache, migrationStarted, mrem>>
    /\ UNCHANGED <<storeVars, workerVars, lockHolder, warehouseVars, crashes, auxVars>>

\* Time passes: every running wait for the processor gets older.
TimePasses ==
    /\ \E t \in Tables, v \in Versions :
            migrationStarted[t][v] \notin {NotStarted, WaitProcessorPeriod}
    /\ migrationStarted' =
         [t \in Tables |-> [v \in Versions |->
             IF migrationStarted[t][v] \in {NotStarted, WaitProcessorPeriod}
             THEN migrationStarted[t][v]
             ELSE migrationStarted[t][v] + 1]]
    /\ UNCHANGED <<cache, mpc, mrem, mcur>>
    /\ UNCHANGED <<storeVars, workerVars, lockHolder, warehouseVars, crashes, reply, auxVars>>

----------------------------------------------------------------------------
(* Process crash and restart (main of main.go; the recovery of manifests  *)
(* found in Loading is the metadata store's, modelled from the            *)
(* specification).                                                         *)

\* The COPY transactions as the warehouse shows them once the process died:
\* a transaction that was running has lost its client.
Orphaned(m) ==
    IF \E w \in Workers : wpc[w] = "copying" /\ wload[w] = m
    THEN copyLog[m] \cup {"orphan"}
    ELSE copyLog[m]

\* Crash recovery of one manifest found in Loading, from the load status.
Recovered(status) ==
    CASE status = "Complete" -> "Done"
      [] status \in {"Failed", "NotFound"} -> "Pending"
      [] OTHER -> "Loading"

\* The process dies and is started again: the Version Cache is read from
\* TableVersions, every manifest in Loading is re-examined with LoadCheck,
\* workers and migrator start afresh.  `picks` are the STL_QUERY rows the
\* probes happen to read.
CrashRestart(picks) ==
    /\ crashes < MaxCrashes
    /\ crashes' = crashes + 1
    /\ \A m \in UUIDs : picks[m] \in (IF Orphaned(m) = {} THEN {"none"} ELSE Orphaned(m))
    /\ copyLog' = [m \in UUIDs |-> Orphaned(m)]
    /\ LET after == [m \in UUIDs |->
                        IF mstate[m] = "Loading"
                        THEN Recovered(CheckLoadStatus(Orphaned(m), picks[m]))
                        ELSE mstate[m]]
           gone == UNION {murls[m] : m \in {k \in UUIDs : mstate[k] = "Loading" /\ after[k] = "Done"}}
       IN /\ mstate' = after
          /\ tsv' = tsv \ gone
    /\ chan' = <<>>
    /\ wpc' = [w \in Workers |-> "idle"]
    /\ wload' = [w \in Workers |-> 0]
    /\ lockHolder' = [t \in Tables |-> Free]
    /\ cache' = TableVersions(rows)
    /\ migrationStarted' = [t \in Tables |-> [v \in Versions |-> NotStarted]]
    /\ mpc' = "idle"
    /\ mrem' = {}
    /\ mcur' = NoCall
    /\ reply' = "none"
    /\ UNCHANGED <<murls, forceLoad, rows, exists, auxVars>>

\* The warehouse ends the transaction of a client that died.
WarehouseAborts(m) ==
    /\ "orphan" \in copyLog[m]
    /\ copyLog' = [copyLog EXCEPT ![m] = (@ \ {"orphan"}) \cup {"aborted"}]
    /\ UNCHANGED <<storeVars, workerVars, lockHolder, rows, exists, migratorVars, crashes, reply, auxVars>>

----------------------------------------------------------------------------
(* The ingress process: cmd metadatastorer.  Its listeners share one dedup *)
(* filter and one Metadata Loader; each listener owns an rdsPipeHandler.   *)
(* The filter (package listener) and the loader (package blueprint) are    *)
(* not part of the sources at hand; they are modelled from the             *)
(* specification (sections 3 and 4.5) and marked so.                       *)

Listeners == 1..NumListeners
MsgIds == 1..MaxMsg

\* The fragment a message announces.
MsgURL(m) == ((m - 1) % MaxURL) + 1

MsgTable(m) == FragTable(MsgURL(m))

\* What the loader's document says of each table.
Docs == [Tables -> {"unknown", "load", "skip"}]

\* A listener between two messages.
Idle ==
    [pc |-> "idle", msg |-> 0, forced |-> FALSE, known |-> FALSE, ace |-> FALSE,
     res |-> "none", ret |-> "none"]

\* A listener entering Handle with message m.
Started(m) == [Idle EXCEPT !.pc = "lookup", !.msg = m]

\* Handle returned value (nil or an error) at the return statement named by
\* result: the findings stay until the listener's next message.
Returned(h, result, value) == [h EXCEPT !.pc = "idle", !.res = result, !.ret = value]

IngressInit ==
    /\ filter = <<>>
    /\ handler = [l \in Listeners |-> Idle]
    /\ iTables = [l \in Listeners |-> {FragTable(u) : u \in tsv}]
    /\ bpcache = [t \in Tables |-> "load"]
    /\ deliveries = [m \in MsgIds |-> 0]
    /\ inserted = [m \in MsgIds |-> 0]
    /\ evicted = {}

\* MetadataLoader.TableExists and MetadataLoader.LoadIntoAce.
LoaderTableExists(t) == bpcache[t] # "unknown"

LoadIntoAce(t) == bpcache[t] = "load"

\* The dedup filter: a bounded LRU set of message IDs.
Held(f) == {f[i] : i \in 1..Len(f)}

DedupAdmitsAll(m) == TRUE

DedupAdmits(m) == m \notin Held(filter)

Remember(m) ==
    LET f == <<m>> \o SelectSeq(filter, LAMBDA x : x # m)
    IN  IF Len(f) > DedupCapacity THEN SubSeq(f, 1, DedupCapacity) ELSE f

\* A delivery of message m to listener l: a replay the filter still holds is
\* acknowledged and dropped, anything else is remembered and handed to
\* Handle, which first parses it (GetRowCopyRequest).
Deliver(l, m, parseOK) ==
    /\ handler[l].pc = "idle"
    /\ deliveries[m] < MaxDeliveries
    /\ deliveries' = [deliveries EXCEPT ![m] = @ + 1]
    /\ filter' = Remember(m)
    /\ evicted' = evicted \cup (Held(filter) \ Held(Remember(m)))
    /\ handler' = IF ~DedupAdmits(m) THEN handler
                  ELSE IF parseOK THEN [handler EXCEPT ![l] = Started(m)]
                  ELSE [handler EXCEPT ![l] = Returned(Started(m), "error", "err")]
    /\ UNCHANGED <<iTables, bpcache, inserted, probe, sideVars>>
    /\ UNCHANGED <<storeVars, workerVars, lockHolder, warehouseVars, migratorVars,
                   crashes, reply>>

\* Handle: a table this handler has not seen before forces a reload of the
\* loader's document, which then holds whatever the registry publishes.
HandleForceReload(l, doc) ==
    /\ handler[l].pc = "lookup"
    /\ IF MsgTable(handler[l].msg) \in iTables[l]
       THEN /\ doc = bpcache
            /\ handler' = [handler EXCEPT ![l].pc = "exists"]
       ELSE handler' = [handler EXCEPT ![l].pc = "exists", ![l].forced = TRUE]
    /\ bpcache' = doc
    /\ UNCHANGED <<filter, iTables, deliveries, inserted, evicted, probe, sideVars>>
    /\ UNCHANGED <<storeVars, workerVars, lockHolder, warehouseVars, migratorVars,
                   crashes, reply>>

\* Handle: TableExists decides between the error and going on; a table that
\* exists is recorded in the handler's own map.
HandleTableExists(l) ==
    /\ handler[l].pc = "exists"
    /\ IF LoaderTableExists(MsgTable(handler[l].msg))
       THEN /\ handler' = [handler EXCEPT ![l].pc = "ace", ![l].known = TRUE]
            /\ iTables' = [iTables EXCEPT ![l] = @ \cup {MsgTable(handler[l].msg)}]
       ELSE /\ handler' = [handler EXCEPT ![l] = Returned(@, "unknown", "err")]
            /\ UNCHANGED iTables
    /\ UNCHANGED <<filter, bpcache, deliveries, inserted, evicted, probe, sideVars>>
    /\ UNCHANGED <<storeVars, workerVars, lockHolder, warehouseVars, migratorVars,
                   crashes, reply>>

HandleWithoutAceCheck(l) ==
    /\ handler[l].pc = "ace"
    /\ handler' = [handler EXCEPT ![l].pc = "insert"]
    /\ UNCHANGED <<filter, iTables, bpcache, deliveries, inserted, evicted, probe, sideVars>>
    /\ UNCHANGED <<storeVars, workerVars, lockHolder, warehouseVars, migratorVars,
                   crashes, reply>>

\* Handle: a table that is not to be loaded is acknowledged and dropped.
HandleLoadIntoAce(l) ==
    /\ handler[l].pc = "ace"
    /\ handler' = IF LoadIntoAce(MsgTable(handler[l].msg))
                  THEN [handler EXCEPT ![l].pc = "insert", ![l].ace = TRUE]
                  ELSE [handler EXCEPT ![l] = Returned(@, "skipped", "nil")]
    /\ UNCHANGED <<filter, iTables, bpcache, deliveries, inserted, evicted, probe, sideVars>>
    /\ UNCHANGED <<storeVars, workerVars, lockHolder, warehouseVars, migratorVars,
                   crashes, reply>>

HandleInsertLoadSwallowing(l, ok) ==
    /\ handler[l].pc = "insert"
    /\ handler' = [handler EXCEPT ![l] = Returned(@, IF ok THEN "queued" ELSE "error", "nil")]
    /\ tsv' = IF ok THEN tsv \cup {MsgURL(handler[l].msg)} ELSE tsv
    /\ inserted' = IF ok /\ MsgURL(handler[l].msg) \notin tsv
                   THEN [inserted EXCEPT ![handler[l].msg] = @ + 1]
                   ELSE inserted
    /\ UNCHANGED <<mstate, murls, forceLoad, chan>>
    /\ UNCHANGED <<filter, iTables, bpcache, deliveries, evicted, probe, sideVars>>
    /\ UNCHANGED <<workerVars, lockHolder, warehouseVars, migratorVars, crashes, reply>>

\* Handle: InsertLoad, idempotent on the URL; its error is returned.
HandleInsertLoad(l, ok) ==
    /\ handler[l].pc = "insert"
    /\ handler' = [handler EXCEPT ![l] = IF ok THEN Returned(@, "queued", "nil")
                                          ELSE Returned(@, "error", "err")]
    /\ tsv' = IF ok THEN tsv \cup {MsgURL(handler[l].msg)} ELSE tsv
    /\ inserted' = IF ok /\ MsgURL(handler[l].msg) \notin tsv
                   THEN [inserted EXCEPT ![handler[l].msg] = @ + 1]
                   ELSE inserted
    /\ UNCHANGED <<mstate, murls, forceLoad, chan>>
    /\ UNCHANGED <<filter, iTables, bpcache, deliveries, evicted, probe, sideVars>>
    /\ UNCHANGED <<workerVars, lockHolder, warehouseVars, migratorVars, crashes, reply>>

\* MetadataLoader.Crank: the periodic refresh replaces the cached document.
Crank(doc) ==
    /\ doc # bpcache
    /\ bpcache' = doc
    /\ UNCHANGED <<filter, handler, iTables, deliveries, inserted, evicted, probe, sideVars>>
    /\ UNCHANGED <<storeVars, workerVars, lockHolder, warehouseVars, migratorVars,
                   crashes, reply>>

----------------------------------------------------------------------------
(* The Metadata Loader (package blueprint) from its construction in main   *)
(* of the ingress process to its Close.  Only the loader's test is among   *)
(* the sources; NewMetadataLoader, Crank and Close are modelled from the   *)
(* specification (section 4.5) and from what the test expects.             *)

\* The document without any table.
EmptyDoc == [t \in Tables |-> "unknown"]

handlerVars == <<filter, handler, iTables, deliveries, inserted, evicted>>

InitialFetchReturningLoader(doc, ok) ==
    /\ lpc = "new"
    /\ IF ok
       THEN /\ bpcache' = doc
            /\ lpc' = "ready"
            /\ ltime' = 0
       ELSE /\ lpc' = IF ltime = MaxInitRetries THEN "ready" ELSE "new"
            /\ ltime' = IF ltime = MaxInitRetries THEN ltime ELSE ltime + 1
            /\ UNCHANGED bpcache
    /\ UNCHANGED <<handlerVars, probe, aged, sdpc, extraVars, ipc>>
    /\ UNCHANGED <<storeVars, workerVars, lockHolder, warehouseVars, migratorVars,
                   crashes, reply>>

\* NewMetadataLoader: one fetch of the initial load.  A fetched document is
\* cached and the loader returned; a failed fetch is retried after the
\* retry delay until the initial load timeout (MaxInitRetries delays) has
\* run out, and then an error is returned.
InitialFetch(doc, ok) ==
    /\ lpc = "new"
    /\ IF ok
       THEN /\ bpcache' = doc
            /\ lpc' = "ready"
            /\ ltime' = 0
       ELSE /\ lpc' = IF ltime = MaxInitRetries THEN "failed" ELSE "new"
            /\ ltime' = IF ltime = MaxInitRetries THEN ltime ELSE ltime + 1
            /\ UNCHANGED bpcache
    /\ UNCHANGED <<handlerVars, probe, aged, sdpc, extraVars, ipc>>
    /\ UNCHANGED <<storeVars, workerVars, lockHolder, warehouseVars, migratorVars,
                   crashes, reply>>

\* main: NewMetadataLoader has returned; its error is logged (not fatal) and
\* Crank is started on whatever was returned.
MainStartsCrank ==
    /\ ipc = "newLoader"
    /\ lpc \in {"ready", "failed"}
    /\ ipc' = "startListeners"
    /\ lpc' = IF lpc = "ready" THEN "cranking" ELSE lpc
    /\ UNCHANGED <<ingressVars, probe, aged, sdpc, extraVars, ltime>>
    /\ UNCHANGED <<storeVars, workerVars, lockHolder, warehouseVars, migratorVars,
                   crashes, reply>>

\* main: the dedup filter is made and the listeners are started.
MainStartsListeners ==
    /\ ipc = "startListeners"
    /\ ipc' = "running"
    /\ UNCHANGED <<ingressVars, probe, aged, sdpc, extraVars, lpc, ltime>>
    /\ UNCHANGED <<storeVars, workerVars, lockHolder, warehouseVars, migratorVars,
                   crashes, reply>>

\* Crank or a handler uses the loader that NewMetadataLoader did not
\* return: the panic may end the process, now or later.
ProcessDies ==
    /\ lpc = "failed"
    /\ ipc \in {"startListeners", "running"}
    /\ ipc' = "dead"
    /\ UNCHANGED <<ingressVars, probe, aged, sdpc, extraVars, lpc, ltime>>
    /\ UNCHANGED <<storeVars, workerVars, lockHolder, warehouseVars, migratorVars,
                   crashes, reply>>

CrankRefreshDroppingOnFailure(doc, ok) ==
    /\ lpc = "cranking"
    /\ ok \/ ltime < MaxInitRetries
    /\ bpcache' = IF ok THEN doc ELSE EmptyDoc
    /\ ltime' = IF ok THEN 0 ELSE ltime + 1
    /\ UNCHANGED <<handlerVars, probe, aged, sdpc, extraVars, lpc, ipc>>
    /\ UNCHANGED <<storeVars, workerVars, lockHolder, warehouseVars, migratorVars,
                   crashes, reply>>

\* Crank, one reload: the fetched document replaces the cached one; after
\* a failed fetch the cached document stays and the fetch is retried.
CrankRefresh(doc, ok) ==
    /\ lpc = "cranking"
    /\ ok \/ ltime < MaxInitRetries
    /\ bpcache' = IF ok THEN doc ELSE bpcache
    /\ ltime' = IF ok THEN 0 ELSE ltime + 1
    /\ UNCHANGED <<handlerVars, probe, aged, sdpc, extraVars, lpc, ipc>>
    /\ UNCHANGED <<storeVars, workerVars, lockHolder, warehouseVars, migratorVars,
                   crashes, reply>>

\* MetadataLoader.Close, called by main on SIGINT: Crank returns.
LoaderClose ==
    /\ ipc = "running"
    /\ lpc = "cranking"
    /\ lpc' = "closed"
    /\ UNCHANGED <<ingressVars, probe, aged, sdpc, extraVars, ltime, ipc>>
    /\ UNCHANGED <<storeVars, workerVars, lockHolder, warehouseVars, migratorVars,
                   crashes, reply>>

----------------------------------------------------------------------------
(* Shutdown: the goroutine of main that waits for SIGINT, Migrator.Close   *)
(* and the end of the workers.  sdpc is the call the goroutine is in:      *)
(* "sigc" (<-sigc), "send" and "wgWait" (Migrator.Close), "backendClose",  *)
(* "statsClose", "workersWait", "exited".                                  *)

\* metaBackend.Close() has returned: the LoadReady channel is closed.
ChanClosed == sdpc \in {"statsClose", "workersWait", "exited"}

\* stats.Close() has returned.
StatsClosed == sdpc \in {"workersWait", "exited"}

\* Migrator.Close has returned.
MigratorClosed == sdpc \in {"backendClose", "statsClose", "workersWait", "exited"}

\* SIGINT arrives: the goroutine calls migrator.Close().
Sigint ==
    /\ sdpc = "sigc"
    /\ sdpc' = "send"
    /\ UNCHANGED <<storeVars, workerVars, lockHolder, warehouseVars, migratorVars,
                   crashes, reply, probe, ingressVars, aged, loaderVars, extraVars>>

MigratorCloseSendAnytime ==
    /\ sdpc = "send"
    /\ mpc \notin {"closing", "stopped"}
    /\ sdpc' = "wgWait"
    /\ mpc' = "closing"
    /\ UNCHANGED <<cache, migrationStarted, mrem, mcur>>
    /\ UNCHANGED <<storeVars, workerVars, lockHolder, warehouseVars,
                   crashes, reply, probe, ingressVars, aged, loaderVars, extraVars>>

\* m.closer <- true meets the loop's select, which is reached between ticks
\* and version increments only; the loop is about to return.
MigratorCloseSend ==
    /\ sdpc = "send"
    /\ mpc = "idle"
    /\ sdpc' = "wgWait"
    /\ mpc' = "closing"
    /\ UNCHANGED <<cache, migrationStarted, mrem, mcur>>
    /\ UNCHANGED <<storeVars, workerVars, lockHolder, warehouseVars,
                   crashes, reply, probe, ingressVars, aged, loaderVars, extraVars>>

\* case <-m.closer: return, and the deferred m.wg.Done().
LoopReturns ==
    /\ mpc = "closing"
    /\ mpc' = "stopped"
    /\ UNCHANGED <<cache, migrationStarted, mrem, mcur>>
    /\ UNCHANGED <<storeVars, workerVars, lockHolder, warehouseVars,
                   crashes, reply, probe, ingressVars, sideVars>>

MigratorCloseReturnsWithoutWait ==
    /\ sdpc = "wgWait"
    /\ sdpc' = "backendClose"
    /\ UNCHANGED <<storeVars, workerVars, lockHolder, warehouseVars, migratorVars,
                   crashes, reply, probe, ingressVars, aged, loaderVars, extraVars>>

\* m.wg.Wait() returns once the loop goroutine is done; Close returns.
MigratorCloseReturns ==
    /\ sdpc = "wgWait"
    /\ mpc = "stopped"
    /\ sdpc' = "backendClose"
    /\ UNCHANGED <<storeVars, workerVars, lockHolder, warehouseVars, migratorVars,
                   crashes, reply, probe, ingressVars, aged, loaderVars, extraVars>>

\* metaBackend.Close(), if there is a metadata backend (n_workers > 0): the
\* LoadReady channel is closed.
BackendClose ==
    /\ sdpc = "backendClose"
    /\ sdpc' = "statsClose"
    /\ UNCHANGED <<storeVars, workerVars, lockHolder, warehouseVars, migratorVars,
                   crashes, reply, probe, ingressVars, aged, loaderVars, extraVars>>

\* stats.Close(): the metrics client is flushed and closed.
StatsClose ==
    /\ sdpc = "statsClose"
    /\ sdpc' = "workersWait"
    /\ UNCHANGED <<storeVars, workerVars, lockHolder, warehouseVars, migratorVars,
                   crashes, reply, probe, ingressVars, aged, loaderVars, extraVars>>

WorkersWaitedForNone ==
    /\ sdpc = "workersWait"
    /\ sdpc' = "exited"
    /\ UNCHANGED <<storeVars, workerVars, lockHolder, warehouseVars, migratorVars,
                   crashes, reply, probe, ingressVars, aged, loaderVars, extraVars>>

\* workerGroup.Wait() returns when every worker that was started is done;
\* the process exits.
WorkersWaited ==
    /\ sdpc = "workersWait"
    /\ \A w \in Workers : w <= poolSize => wpc[w] = "exited"
    /\ sdpc' = "exited"
    /\ UNCHANGED <<storeVars, workerVars, lockHolder, warehouseVars, migratorVars,
                   crashes, reply, probe, ingressVars, aged, loaderVars, extraVars>>

\* for load := range c ends on the closed, drained channel: workerGroup.Done().
WorkerExits(w) ==
    /\ wpc[w] = "idle"
    /\ chan = <<>>
    /\ ChanClosed
    /\ wpc' = [wpc EXCEPT ![w] = "exited"]
    /\ UNCHANGED <<storeVars, wload, lockHolder, warehouseVars, migratorVars,
                   crashes, reply, auxVars>>

----------------------------------------------------------------------------
(* The lock registry of the warehouse adapter: getTableLock, and the two   *)
(* operations that take a table's mutex, step by step.  gpc[c].pc is the   *)
(* caller's position: "idle", "getLock" (before r.lockLock.Lock()),        *)
(* "lookup", "create", "return" (inside getTableLock), "lock" (before      *)
(* lock.Lock()), "work" (inside ExecFnInTransaction).                      *)

Callers == {Migrator} \cup {Worker(w) : w \in Workers}

nonRegistryVars ==
    <<storeVars, workerVars, lockHolder, warehouseVars, migratorVars, crashes, reply,
      probe, ingressVars, aged, sdpc, loaderVars, lsq, poolSize>>

At(c, pc) == [gpc EXCEPT ![c].pc = pc]

\* ManifestCopy (a worker) or ApplyOperations (the migrator) is called for
\* `table` and calls getTableLock.
CallStarts(c, table) ==
    /\ gpc[c].pc = "idle"
    /\ gpc' = [gpc EXCEPT ![c] = [pc |-> "getLock", table |-> table, mutex |-> 0]]
    /\ UNCHANGED <<lockLock, tableLocks, mutexes, nonRegistryVars>>

LockRegistryNoWait(c) ==
    /\ gpc[c].pc = "getLock"
    /\ lockLock' = c
    /\ gpc' = At(c, "lookup")
    /\ UNCHANGED <<tableLocks, mutexes, nonRegistryVars>>

\* r.lockLock.Lock()
LockRegistry(c) ==
    /\ gpc[c].pc = "getLock"
    /\ lockLock = Free
    /\ lockLock' = c
    /\ gpc' = At(c, "lookup")
    /\ UNCHANGED <<tableLocks, mutexes, nonRegistryVars>>

\* lock, exist := r.tableLocks[table]
Lookup(c) ==
    /\ gpc[c].pc = "lookup"
    /\ gpc' = IF tableLocks[gpc[c].table] # 0
              THEN [gpc EXCEPT ![c].pc = "return", ![c].mutex = tableLocks[gpc[c].table]]
              ELSE At(c, "create")
    /\ UNCHANGED <<lockLock, tableLocks, mutexes, nonRegistryVars>>

\* lock = &sync.Mutex{}; r.tableLocks[table] = lock
CreateMutex(c) ==
    /\ gpc[c].pc = "create"
    /\ mutexes' = Append(mutexes, Free)
    /\ tableLocks' = [tableLocks EXCEPT ![gpc[c].table] = Len(mutexes) + 1]
    /\ gpc' = [gpc EXCEPT ![c].pc = "return", ![c].mutex = Len(mutexes) + 1]
    /\ UNCHANGED <<lockLock, nonRegistryVars>>

\* return lock, and the deferred r.lockLock.Unlock()
GetTableLockReturns(c) ==
    /\ gpc[c].pc = "return"
    /\ lockLock' = IF lockLock = c THEN Free ELSE lockLock
    /\ gpc' = At(c, "lock")
    /\ UNCHANGED <<tableLocks, mutexes, nonRegistryVars>>

\* lock.Lock()
LockMutex(c) ==
    /\ gpc[c].pc = "lock"
    /\ mutexes[gpc[c].mutex] = Free
    /\ mutexes' = [mutexes EXCEPT ![gpc[c].mutex] = c]
    /\ gpc' = At(c, "work")
    /\ UNCHANGED <<lockLock, tableLocks, nonRegistryVars>>

\* ExecFnInTransaction returns, nil or an error, and the deferred
\* lock.Unlock() runs.  The idle caller keeps the outcome in its table field.
OperationReturns(c, ok) ==
    /\ gpc[c].pc = "work"
    /\ mutexes' = [mutexes EXCEPT ![gpc[c].mutex] = Free]
    /\ gpc' = [gpc EXCEPT ![c] = [pc |-> "idle", table |-> IF ok THEN "nil" ELSE "err",
                                  mutex |-> 0]]
    /\ UNCHANGED <<lockLock, tableLocks, nonRegistryVars>>

\* A step of a call that has started.
CallStep(c) ==
    \/ LockRegistry(c)
    \/ Lookup(c)
    \/ CreateMutex(c)
    \/ GetTableLockReturns(c)
    \/ LockMutex(c)
    \/ \E ok \in BOOLEAN : OperationReturns(c, ok)

NextRegistry ==
    \/ \E c \in Callers, t \in Tables : CallStarts(c, t)
    \/ \E c \in Callers : CallStep(c)

----------------------------------------------------------------------------
(* The system *)

Init ==
    /\ tsv = {}
    /\ mstate = [m \in UUIDs |-> "none"]
    /\ murls = [m \in UUIDs |-> {}]
    /\ forceLoad = {}
    /\ chan = <<>>
    /\ wpc = [w \in Workers |-> "idle"]
    /\ wload = [w \in Workers |-> 0]
    /\ lockHolder = [t \in Tables |-> Free]
    /\ rows = [t \in Tables |-> IF t = "T1" THEN {0} ELSE {}]
    /\ exists = [t \in Tables |-> t = "T1"]
    /\ copyLog = [m \in UUIDs |-> {}]
    /\ cache = TableVersions(rows)
    /\ migrationStarted = [t \in Tables |-> [v \in Versions |-> NotStarted]]
    /\ mpc = "idle"
    /\ mrem = {}
    /\ mcur = NoCall
    /\ crashes = 0
    /\ reply = "none"
    /\ probe = NoProbe
    /\ IngressInit
    /\ SideInit

\* The first URL of each table and version.
OnePerKind ==
    {u \in URLs : \A x \in URLs :
        x < u => FragTable(x) # FragTable(u) \/ FragVersion(x) # FragVersion(u)}

\* The running process: workers and migrator, the producers
\* announcing one fragment per table and version.  A COPY commits when its
\* table exists and fails for good otherwise (retries and crashes are
\* SpecLoad's).
Next ==
    \/ \E u \in OnePerKind : InsertLoad(u)
    \/ \E t \in Tables, oldEnough \in BOOLEAN : LoadReadyAssemble(t, oldEnough)
    \/ \E t \in Tables : ForceIngest(t)
    \/ \E w \in Workers : Receive(w)
    \/ \E w \in Workers : ManifestCopyBegin(w)
    \/ \E w \in Workers :
            ManifestCopyEnd(w, wpc[w] = "copying" /\ TableExists(ManifestTable(wload[w])),
                            TRUE, FALSE)
    \/ \E w \in Workers : WorkFinish(w)
    \/ TickStart
    \/ \E t \in Tables, offpeak \in {isOffPeakHours(h) : h \in Hours}, locked \in BOOLEAN,
          ops \in OpLists, fault \in Faults :
            MigrateTable(t, offpeak, locked, ops, fault)
    \/ ApplyOperationsBegin
    \/ \E sqlOK, commitOK \in BOOLEAN : ApplyOperationsEnd(sqlOK, commitOK)
    \/ \E sqlOK, commitOK \in BOOLEAN : CreateTableEnd(sqlOK, commitOK)
    \/ TimePasses

Spec == Init /\ [][Next]_vars

\* The adapter's callers alone: workers in ManifestCopy, the migrator in
\* ApplyOperations, on any tables.
SpecRegistry == Init /\ [][NextRegistry]_vars


\* The migrator loop serving ticks and VersionIncrement requests of the
\* control surface, with failing statements and commits; nothing is loaded.
NextControl ==
    \/ \E u \in OnePerKind : InsertLoad(u)
    \/ TickStart
    \/ \E t \in Tables, offpeak \in {isOffPeakHours(h) : h \in Hours}, ops \in OpLists :
            MigrateTable(t, offpeak, FALSE, ops, "none")
    \/ ApplyOperationsBegin
    \/ \E sqlOK, commitOK \in BOOLEAN : ApplyOperationsEnd(sqlOK, commitOK)
    \/ \E sqlOK, commitOK \in BOOLEAN : CreateTableEnd(sqlOK, commitOK)
    \/ \E t \in Tables, v \in 0..MaxIncrement, fault \in {"none", "TableExists"} :
            incrementVersion(t, v, fault)
    \/ TimePasses

SpecControl == Init /\ [][NextControl]_vars

\* Every operation list of up to MaxOps operations: ADD with and without its
\* metadata, DROP_EVENT, another known action and an unknown one.
AnyOps ==
    {Op("ADD", TRUE), Op("ADD", FALSE), Op("DROP_EVENT", FALSE), Op("RENAME", FALSE),
     Op("BOGUS", FALSE)}

AnyOpLists == UNION {[1..n -> AnyOps] : n \in 0..MaxOps}

HasDropEvent(ops) == \E i \in 1..Len(ops) : ops[i].Action = "DROP_EVENT"

\* The migrator creating tables from whatever operation list the schema
\* registry answers with.
NextCreate ==
    \/ \E u \in OnePerKind : InsertLoad(u)
    \/ TickStart
    \/ \E t \in Tables, ops \in AnyOpLists : MigrateTable(t, TRUE, FALSE, ops, "none")
    \/ ApplyOperationsBegin
    \/ \E sqlOK \in BOOLEAN : ApplyOperationsEnd(sqlOK, TRUE)
    \/ \E sqlOK \in BOOLEAN : CreateTableEnd(sqlOK, TRUE)
    \/ TimePasses

SpecCreate == Init /\ [][NextCreate]_vars

\* The load pipeline of one table across process crashes, the migrator idle.
NextLoad ==
    \/ \E u \in {x \in URLs : FragTable(x) = "T1" /\ FragVersion(x) = 0} : InsertLoad(u)
    \/ \E t \in Tables, oldEnough \in BOOLEAN : LoadReadyAssemble(t, oldEnough)
    \/ \E m \in UUIDs : LoadReadyRelease(m)
    \/ ForceIngest("T1")
    \/ \E w \in Workers : Receive(w)
    \/ \E w \in Workers : ManifestCopyBegin(w)
    \/ \E w \in Workers, retryable \in BOOLEAN : LoadManifestFails(w, retryable)
    \/ \E w \in Workers, copyOK, commitOK, retryable \in BOOLEAN :
            ManifestCopyEnd(w, copyOK, commitOK, retryable)
    \/ \E w \in Workers : WorkFinish(w)
    \/ \E picks \in [UUIDs -> AttemptStates \cup {"none"}] : CrashRestart(picks)
    \/ \E m \in UUIDs : WarehouseAborts(m)

SpecLoad == Init /\ [][NextLoad]_vars

\* Loads and migrations contending for the tables' mutexes: every fragment,
\* off-peak, no faults.
NextLock ==
    \/ \E u \in URLs : InsertLoad(u)
    \/ \E t \in Tables, oldEnough \in BOOLEAN : LoadReadyAssemble(t, oldEnough)
    \/ \E w \in Workers : Receive(w)
    \/ \E w \in Workers : ManifestCopyBegin(w)
    \/ \E w \in Workers :
            ManifestCopyEnd(w, wpc[w] = "copying" /\ TableExists(ManifestTable(wload[w])),
                            TRUE, FALSE)
    \/ \E w \in Workers : WorkFinish(w)
    \/ TickStart
    \/ \E t \in Tables : MigrateTable(t, TRUE, FALSE, <<Op("ADD", TRUE)>>, "none")
    \/ ApplyOperationsBegin
    \/ ApplyOperationsEnd(TRUE, TRUE)
    \/ CreateTableEnd(TRUE, TRUE)
    \/ TimePasses

SpecLock == Init /\ [][NextLock]_vars

\* The migrator's gate at every hour, with force-load requests, locks of other
\* sessions and failing probes; the transactions themselves succeed.
GateFaults == {"none", "IsForceLoadRequested", "TableLocked"}

NextGate ==
    \/ \E u \in OnePerKind : InsertLoad(u)
    \/ \E t \in Tables, oldEnough \in BOOLEAN : LoadReadyAssemble(t, oldEnough)
    \/ \E t \in Tables : ForceIngest(t)
    \/ \E w \in Workers : Receive(w)
    \/ \E w \in Workers : ManifestCopyBegin(w)
    \/ \E w \in Workers :
            ManifestCopyEnd(w, wpc[w] = "copying" /\ TableExists(ManifestTable(wload[w])),
                            TRUE, FALSE)
    \/ \E w \in Workers : WorkFinish(w)
    \/ TickStart
    \/ \E t \in Tables, offpeak \in {isOffPeakHours(h) : h \in Hours}, locked \in BOOLEAN,
          fault \in GateFaults :
            MigrateTable(t, offpeak, locked, <<Op("ADD", TRUE)>>, fault)
    \/ ApplyOperationsBegin
    \/ ApplyOperationsEnd(TRUE, TRUE)
    \/ CreateTableEnd(TRUE, TRUE)
    \/ TimePasses

SpecGate == Init /\ [][NextGate]_vars

\* isOffPeakHours alone, for every configuration and hour.
Durations == 0..24

InitProbe ==
    /\ probe \in [start : Hours, duration : Durations, hour : Hours, answer : {"none"}]
    /\ tsv = {}
    /\ IngressInit
    /\ SideInit
    /\ mstate = [m \in UUIDs |-> "none"]
    /\ murls = [m \in UUIDs |-> {}]
    /\ forceLoad = {}
    /\ chan = <<>>
    /\ wpc = [w \in Workers |-> "idle"]
    /\ wload = [w \in Workers |-> 0]
    /\ lockHolder = [t \in Tables |-> Free]
    /\ rows = [t \in Tables |-> IF t = "T1" THEN {0} ELSE {}]
    /\ exists = [t \in Tables |-> t = "T1"]
    /\ copyLog = [m \in UUIDs |-> {}]
    /\ cache = TableVersions(rows)
    /\ migrationStarted = [t \in Tables |-> [v \in Versions |-> NotStarted]]
    /\ mpc = "idle"
    /\ mrem = {}
    /\ mcur = NoCall
    /\ crashes = 0
    /\ reply = "none"

ProbeOffPeak ==
    /\ probe.answer = "none"
    /\ probe' = [probe EXCEPT !.answer =
                    IF isOffPeakHoursAt(probe.start, probe.duration, probe.hour)
                    THEN "yes" ELSE "no"]
    /\ UNCHANGED <<storeVars, workerVars, lockHolder, warehouseVars, migratorVars,
                   crashes, reply, ingressVars, sideVars>>

NextProbe == ProbeOffPeak

SpecProbe == InitProbe /\ [][NextProbe]_vars

\* What the four queries of CheckLoadStatus find for one manifest URL:
\*   recents   count(*) of STV_RECENTS rows matching the COPY, status not Done
\*   history   the STL_QUERY row QueryRow returns: "none" (sql.ErrNoRows),
\*             "ran" (aborted = 0) or "aborted" (aborted = 1)
\*   commits   count(*) of COMMIT rows of STL_UTILITYTEXT for the xid
\*   undone    count(*) of STL_UNDONE rows for the xid
\*   errAt     the query (1..4) that fails when it is run; 0: none fails
Views ==
    [recents : 0..2, history : {"none", "ran", "aborted"}, commits : 0..1,
     undone : 0..1, errAt : 0..4, answer : {NoAnswer}]

Status(status) == [status |-> status, err |-> FALSE]

\* return "", err
QueryError == [status |-> "", err |-> TRUE]

CheckLoadStatusUndoneFirst(q) ==
    IF q.errAt = 1 THEN QueryError
    ELSE IF q.recents # 0 THEN Status("InProgress")
    ELSE IF q.errAt = 2 THEN QueryError
    ELSE IF q.history = "none" THEN Status("NotFound")
    ELSE IF q.history = "aborted" THEN Status("Failed")
    ELSE IF q.errAt = 4 THEN QueryError
    ELSE IF q.undone # 0 THEN Status("Failed")
    ELSE IF q.errAt = 3 THEN QueryError
    ELSE IF q.commits # 0 THEN Status("Complete")
    ELSE Status("InProgress")

\* CheckLoadStatus on the views q, query by query.
CheckLoadStatusOnViews(q) ==
    IF q.errAt = 1 THEN QueryError
    ELSE IF q.recents # 0 THEN Status("InProgress")
    ELSE IF q.errAt = 2 THEN QueryError
    ELSE IF q.history = "none" THEN Status("NotFound")
    ELSE IF q.history = "aborted" THEN Status("Failed")
    ELSE IF q.errAt = 3 THEN QueryError
    ELSE IF q.commits # 0 THEN Status("Complete")
    ELSE IF q.errAt = 4 THEN QueryError
    ELSE IF q.undone # 0 THEN Status("Failed")
    ELSE Status("InProgress")

InitStatus ==
    /\ lsq \in Views
    /\ poolSize = NumWorkers
    /\ lockLock = Free
    /\ tableLocks = [t \in Tables |-> 0]
    /\ mutexes = <<>>
    /\ gpc = [c \in {Migrator} \cup {Worker(w) : w \in Workers} |-> NoLockCall]
    /\ aged = {}
    /\ sdpc = "sigc"
    /\ lpc = "cranking"
    /\ ltime = 0
    /\ ipc = "running"
    /\ probe = NoProbe
    /\ tsv = {}
    /\ IngressInit
    /\ mstate = [m \in UUIDs |-> "none"]
    /\ murls = [m \in UUIDs |-> {}]
    /\ forceLoad = {}
    /\ chan = <<>>
    /\ wpc = [w \in Workers |-> "idle"]
    /\ wload = [w \in Workers |-> 0]
    /\ lockHolder = [t \in Tables |-> Free]
    /\ rows = [t \in Tables |-> IF t = "T1" THEN {0} ELSE {}]
    /\ exists = [t \in Tables |-> t = "T1"]
    /\ copyLog = [m \in UUIDs |-> {}]
    /\ cache = TableVersions(rows)
    /\ migrationStarted = [t \in Tables |-> [v \in Versions |-> NotStarted]]
    /\ mpc = "idle"
    /\ mrem = {}
    /\ mcur = NoCall
    /\ crashes = 0
    /\ reply = "none"

\* LoadCheck runs CheckLoadStatus on the views.
LoadCheckOnViews ==
    /\ lsq.answer = NoAnswer
    /\ lsq' = [lsq EXCEPT !.answer = CheckLoadStatusOnViews(lsq)]
    /\ UNCHANGED <<storeVars, workerVars, lockHolder, warehouseVars, migratorVars,
                   crashes, reply, probe, ingressVars, aged, sdpc, loaderVars,
                   poolSize, registryVars>>

NextStatus == LoadCheckOnViews

SpecStatus == InitStatus /\ [][NextStatus]_vars

\* A migration in progress: T1 is at version 0 in the warehouse, a fragment of
\* version 0 and one of version 1 are queued.
InitLive ==
    /\ tsv = {1, 3}
    /\ mstate = [m \in UUIDs |-> "none"]
    /\ murls = [m \in UUIDs |-> {}]
    /\ forceLoad = {}
    /\ chan = <<>>
    /\ wpc = [w \in Workers |-> "idle"]
    /\ wload = [w \in Workers |-> 0]
    /\ lockHolder = [t \in Tables |-> Free]
    /\ rows = [t \in Tables |-> IF t = "T1" THEN {0} ELSE {}]
    /\ exists = [t \in Tables |-> t = "T1"]
    /\ copyLog = [m \in UUIDs |-> {}]
    /\ cache = TableVersions(rows)
    /\ migrationStarted = [t \in Tables |-> [v \in Versions |-> NotStarted]]
    /\ mpc = "idle"
    /\ mrem = {}
    /\ mcur = NoCall
    /\ crashes = 0
    /\ reply = "none"
    /\ probe = NoProbe
    /\ IngressInit
    /\ SideInit

\* The steps of the store's dispenser, of worker w and of the migrator when
\* nothing fails, during off-peak hours and before any age trigger.
DispenserStep == \E t \in Tables : LoadReadyAssemble(t, FALSE)

WorkerStep(w) ==
    \/ Receive(w)
    \/ ManifestCopyBegin(w)
    \/ ManifestCopyEnd(w, wpc[w] = "copying" /\ TableExists(ManifestTable(wload[w])),
                       TRUE, FALSE)
    \/ WorkFinish(w)

MigratorStep ==
    \/ TickStart
    \/ \E t \in Tables, h \in Hours :
          /\ isOffPeakHours(h)
          /\ MigrateTable(t, isOffPeakHours(h), FALSE, <<Op("ADD", TRUE)>>, "none")
    \/ ApplyOperationsBegin
    \/ ApplyOperationsEnd(TRUE, TRUE)
    \/ CreateTableEnd(TRUE, TRUE)

NextLive ==
    \/ InsertLoad(2)
    \/ DispenserStep
    \/ \E w \in Workers : WorkerStep(w)
    \/ MigratorStep
    \/ TimePasses

\* Every goroutine that can take a step eventually takes one, and time passes.
Fairness ==
    /\ WF_vars(DispenserStep)
    /\ \A w \in Workers : WF_vars(WorkerStep(w))
    /\ WF_vars(MigratorStep)
    /\ WF_vars(TimePasses)

LiveSpec == InitLive /\ [][NextLive]_vars /\ Fairness

\* On-peak hours with a migration of T1 to version 1 pending and the force
\* flag of T1 set by POST /control/ingest; the processor may still deliver a
\* fragment of version 0.
InitPeak ==
    /\ tsv = {3}
    /\ mstate = [m \in UUIDs |-> "none"]
    /\ murls = [m \in UUIDs |-> {}]
    /\ forceLoad = {"T1"}
    /\ chan = <<>>
    /\ wpc = [w \in Workers |-> "idle"]
    /\ wload = [w \in Workers |-> 0]
    /\ lockHolder = [t \in Tables |-> Free]
    /\ rows = [t \in Tables |-> IF t = "T1" THEN {0} ELSE {}]
    /\ exists = [t \in Tables |-> t = "T1"]
    /\ copyLog = [m \in UUIDs |-> {}]
    /\ cache = TableVersions(rows)
    /\ migrationStarted = [t \in Tables |-> [v \in Versions |-> NotStarted]]
    /\ mpc = "idle"
    /\ mrem = {}
    /\ mcur = NoCall
    /\ crashes = 0
    /\ reply = "none"
    /\ probe = NoProbe
    /\ IngressInit
    /\ SideInit

MigratorStepOnPeak ==
    \/ TickStart
    \/ \E t \in Tables, h \in Hours :
          /\ ~isOffPeakHours(h)
          /\ MigrateTable(t, isOffPeakHours(h), FALSE, <<Op("ADD", TRUE)>>, "none")
    \/ ApplyOperationsBegin
    \/ ApplyOperationsEnd(TRUE, TRUE)

NextPeak ==
    \/ InsertLoad(1)
    \/ DispenserStep
    \/ \E w \in Workers : WorkerStep(w)
    \/ MigratorStepOnPeak
    \/ TimePasses

FairnessOnPeak ==
    /\ WF_vars(DispenserStep)
    /\ \A w \in Workers : WF_vars(WorkerStep(w))
    /\ WF_vars(MigratorStepOnPeak)
    /\ WF_vars(TimePasses)

PeakSpec == InitPeak /\ [][NextPeak]_vars /\ FairnessOnPeak

\* The ingress process feeding the store, and the fault-free load pipeline
\* that consumes what it inserts.
NextIngress ==
    \/ \E l \in Listeners, m \in MsgIds, parseOK \in BOOLEAN : Deliver(l, m, parseOK)
    \/ \E l \in Listeners, doc \in Docs : HandleForceReload(l, doc)
    \/ \E l \in Listeners : HandleTableExists(l)
    \/ \E l \in Listeners : HandleLoadIntoAce(l)
    \/ \E l \in Listeners, ok \in BOOLEAN : HandleInsertLoad(l, ok)
    \/ \E doc \in Docs : Crank(doc)
    \/ \E t \in Tables, oldEnough \in BOOLEAN : LoadReadyAssemble(t, oldEnough)
    \/ \E w \in Workers : WorkerStep(w)

SpecIngress == Init /\ [][NextIngress]_vars

\* The dispenser and its three triggers: each fragment is announced once,
\* rows age, operators force loads, workers load without faults.
NextTrigger ==
    \/ \E u \in URLs \ aged : InsertLoad(u)
    \/ \E u \in URLs : RowAges(u)
    \/ \E t \in Tables : ForceIngest(t)
    \/ \E t \in Tables : LoadReadyAssemble(t, OldestReached(t))
    \/ \E w \in Workers : WorkerStep(w)

SpecTrigger == Init /\ [][NextTrigger]_vars

\* The process from a running state to its exit on SIGINT: producers, the
\* dispenser until its channel is closed, workers and migrator without
\* faults, version increments, and the shutdown goroutine.
NextShutdown ==
    \/ \E u \in OnePerKind : InsertLoad(u)
    \/ \E t \in Tables : ~ChanClosed /\ LoadReadyAssemble(t, TRUE)
    \/ \E w \in Workers : WorkerStep(w)
    \/ \E w \in Workers : WorkerExits(w)
    \/ MigratorStep
    \/ \E t \in Tables : incrementVersion(t, 0, "none")
    \/ TimePasses
    \/ Sigint
    \/ MigratorCloseSend
    \/ LoopReturns
    \/ MigratorCloseReturns
    \/ BackendClose
    \/ StatsClose
    \/ WorkersWaited

SpecShutdown == Init /\ [][NextShutdown]_vars

\* The control handler of POST /control/increment_version (modelled from the
\* specification): it sends a VersionIncrement on the unbuffered channel and
\* then waits on the response slot.  reply = "sending": the handler has a
\* request that has not been answered; it is blocked in the send until the
\* loop receives the request (mcur.by = "incrementVersion" while the loop
\* works on it).
RequestSend ==
    /\ reply \in {"none", "nil", "err"}
    /\ reply' = "sending"
    /\ UNCHANGED <<storeVars, workerVars, lockHolder, warehouseVars, migratorVars,
                   crashes, auxVars>>

\* case verInc := <-m.versionIncrement of the loop's select.
LoopReceives ==
    /\ reply = "sending"
    /\ mcur.by # "incrementVersion"
    /\ \E t \in Tables, v \in 0..MaxVersion, fault \in {"none", "TableExists"} :
            incrementVersion(t, v, fault)

\* The request is in the loop's hands, not answered yet.
RequestReceived == reply = "sending" /\ mcur.by = "incrementVersion"

RequestAnswered == reply \in {"nil", "err"}

NextRequest ==
    \/ \E u \in OnePerKind : InsertLoad(u)
    \/ RequestSend
    \/ LoopReceives
    \/ MigratorStep
    \/ \E sqlOK \in BOOLEAN : ApplyOperationsEnd(sqlOK, TRUE)
    \/ TimePasses
    \/ Sigint
    \/ MigratorCloseSend
    \/ LoopReturns
    \/ MigratorCloseReturns

\* The loop goes on when it can, its select passes over no ready case
\* forever, and every ApplyOperations returns.
FairnessRequest ==
    /\ WF_vars(MigratorStep)
    /\ WF_vars(\E sqlOK \in BOOLEAN : ApplyOperationsEnd(sqlOK, TRUE))
    /\ SF_vars(LoopReceives)
    /\ SF_vars(MigratorCloseSend)
    /\ WF_vars(LoopReturns)
    /\ WF_vars(MigratorCloseReturns)

RequestSpec == Init /\ [][NextRequest]_vars /\ FairnessRequest

\* The process is set up with n_workers = 0 or with NumWorkers workers.
InitPool ==
    /\ poolSize \in {0, NumWorkers}
    /\ lsq = NoQuery
    /\ lockLock = Free
    /\ tableLocks = [t \in Tables |-> 0]
    /\ mutexes = <<>>
    /\ gpc = [c \in {Migrator} \cup {Worker(w) : w \in Workers} |-> NoLockCall]
    /\ aged = {}
    /\ sdpc = "sigc"
    /\ lpc = "cranking"
    /\ ltime = 0
    /\ ipc = "running"
    /\ probe = NoProbe
    /\ tsv = {}
    /\ IngressInit
    /\ mstate = [m \in UUIDs |-> "none"]
    /\ murls = [m \in UUIDs |-> {}]
    /\ forceLoad = {}
    /\ chan = <<>>
    /\ wpc = [w \in Workers |-> "idle"]
    /\ wload = [w \in Workers |-> 0]
    /\ lockHolder = [t \in Tables |-> Free]
    /\ rows = [t \in Tables |-> IF t = "T1" THEN {0} ELSE {}]
    /\ exists = [t \in Tables |-> t = "T1"]
    /\ copyLog = [m \in UUIDs |-> {}]
    /\ cache = TableVersions(rows)
    /\ migrationStarted = [t \in Tables |-> [v \in Versions |-> NotStarted]]
    /\ mpc = "idle"
    /\ mrem = {}
    /\ mcur = NoCall
    /\ crashes = 0
    /\ reply = "none"

\* The store's dispenser runs only for a metadata backend, until Close.
PoolDispenserStep ==
    \E t \in Tables : poolSize > 0 /\ ~ChanClosed /\ LoadReadyAssemble(t, TRUE)

\* The steps of a worker that startWorkers has started.
PoolWorkerStep(w) == w <= poolSize /\ (WorkerStep(w) \/ WorkerExits(w))

\* The steps of the goroutine that waits for SIGINT, after the signal.
ShutdownStep ==
    \/ MigratorCloseReturns
    \/ BackendClose
    \/ StatsClose
    \/ WorkersWaited

NextPool ==
    \/ \E u \in OnePerKind : InsertLoad(u)
    \/ PoolDispenserStep
    \/ \E w \in Workers : PoolWorkerStep(w)
    \/ MigratorStep
    \/ TimePasses
    \/ Sigint
    \/ MigratorCloseSend
    \/ LoopReturns
    \/ ShutdownStep

\* Every COPY and DDL in flight ends, every goroutine that can take a step
\* eventually takes one, and the select of the migrator's loop, which
\* chooses among its ready cases at random, does not pass over m.closer
\* forever.
FairnessPool ==
    /\ \A w \in Workers : WF_vars(PoolWorkerStep(w))
    /\ WF_vars(MigratorStep)
    /\ SF_vars(MigratorCloseSend)
    /\ WF_vars(LoopReturns)
    /\ WF_vars(ShutdownStep)

PoolSpec == InitPool /\ [][NextPool]_vars /\ FairnessPool

\* The ingress process starts: main constructs the Metadata Loader.
InitLoader ==
    /\ lpc = "new"
    /\ ltime = 0
    /\ ipc = "newLoader"
    /\ ExtraInit
    /\ aged = {}
    /\ sdpc = "sigc"
    /\ probe = NoProbe
    /\ tsv = {}
    /\ filter = <<>>
    /\ handler = [l \in Listeners |-> Idle]
    /\ iTables = [l \in Listeners |-> {}]
    /\ bpcache = EmptyDoc
    /\ deliveries = [m \in MsgIds |-> 0]
    /\ inserted = [m \in MsgIds |-> 0]
    /\ evicted = {}
    /\ mstate = [m \in UUIDs |-> "none"]
    /\ murls = [m \in UUIDs |-> {}]
    /\ forceLoad = {}
    /\ chan = <<>>
    /\ wpc = [w \in Workers |-> "idle"]
    /\ wload = [w \in Workers |-> 0]
    /\ lockHolder = [t \in Tables |-> Free]
    /\ rows = [t \in Tables |-> IF t = "T1" THEN {0} ELSE {}]
    /\ exists = [t \in Tables |-> t = "T1"]
    /\ copyLog = [m \in UUIDs |-> {}]
    /\ cache = TableVersions(rows)
    /\ migrationStarted = [t \in Tables |-> [v \in Versions |-> NotStarted]]
    /\ mpc = "idle"
    /\ mrem = {}
    /\ mcur = NoCall
    /\ crashes = 0
    /\ reply = "none"

LoaderFetch == \E doc \in Docs, ok \in BOOLEAN : InitialFetch(doc, ok)

NextLoader ==
    \/ LoaderFetch
    \/ MainStartsCrank
    \/ MainStartsListeners
    \/ ProcessDies
    \/ \E doc \in Docs, ok \in BOOLEAN : CrankRefresh(doc, ok)
    \/ LoaderClose

\* NewMetadataLoader keeps fetching until it returns.
SpecLoader == InitLoader /\ [][NextLoader]_vars /\ WF_vars(LoaderFetch)

----------------------------------------------------------------------------
(* Properties *)

\* C1: every fragment URL is a member of at most one manifest that has not
\* reached Done, whatever the interleaving of InsertLoad, assembly, LoadDone,
\* LoadError and crash recovery.
C1_AtMostOneLiveManifest ==
    \A u \in URLs : Cardinality({m \in UUIDs : Live(m) /\ u \in murls[m]}) <= 1

\* Two manifests that are not Done exist side by side after a restart.
C1_Witness ==
    /\ crashes > 0
    /\ \E m1, m2 \in UUIDs : m1 # m2 /\ Live(m1) /\ Live(m2)

\* C2: a manifest emitted by LoadReady is received by one worker only: no two
\* workers hold the same manifest, a manifest still on the channel is held by
\* none, and so ManifestCopy never runs for one manifest in two workers.
C2_SingleLease ==
    /\ \A w1, w2 \in Workers : w1 # w2 /\ wload[w1] # 0 => wload[w2] # wload[w1]
    /\ \A w \in Workers : chan # <<>> => wload[w] # Head(chan)

\* Both workers hold a manifest, one of them inside ManifestCopy.
C2_Witness ==
    /\ \A w \in Workers : wload[w] # 0
    /\ \E w \in Workers : wpc[w] = "copying"

\* C3: a manifest is Done (by LoadDone or by crash recovery) only if a COPY
\* of that manifest was committed in the warehouse.
C3_DoneOnlyAfterCommit ==
    \A m \in UUIDs : mstate[m] = "Done" => "committed" \in copyLog[m]

\* A manifest is Done whose first COPY failed, after a restart.
C3_Witness ==
    /\ crashes > 0
    /\ \E m \in UUIDs : mstate[m] = "Done" /\ copyLog[m] \cap {"aborted", "undone"} # {}

\* C4: the maximum version recorded for a table never decreases, and a
\* committing ApplyOperations(table, ops, targetVersion) finds the maximum at
\* targetVersion - 1 (no row counting as -1) and leaves it at targetVersion.
C4_VersionMonotone ==
    [][ /\ \A t \in Tables : TableVersions(rows')[t] >= TableVersions(rows)[t]
        /\ (mpc = "apply" /\ rows' # rows) =>
              /\ TableVersions(rows)[mcur.table] = mcur.to - 1
              /\ TableVersions(rows')[mcur.table] = mcur.to ]_vars

\* ApplyOperations has raised T1 to version 1, and T2 has a version row.
C4_Witness == rows["T1"] = {0, 1} /\ rows["T2"] # {}

\* C5: between two iterations of the migrator loop the Version Cache holds,
\* for every table, the maximum version of infra.table_version.
C5_CacheMirrorsWarehouse == mpc = "idle" => cache = TableVersions(rows)

\* C6: per table, ManifestCopy and ApplyOperations transactions exclude one
\* another, and each runs with the table's mutex held by its caller.
C6_TableSerialized ==
    /\ \A w1, w2 \in Workers :
          w1 # w2 /\ wpc[w1] = "copying" /\ wpc[w2] = "copying"
              => ManifestTable(wload[w1]) # ManifestTable(wload[w2])
    /\ \A w \in Workers :
          wpc[w] = "copying" =>
              /\ lockHolder[ManifestTable(wload[w])] = Worker(w)
              /\ mpc = "apply" => mcur.table # ManifestTable(wload[w])
    /\ mpc = "apply" => lockHolder[mcur.table] = Migrator

\* A COPY into T1 keeps ApplyOperations for T1 waiting for the mutex while
\* the other worker has a manifest of T1 to copy as well.
C6_Witness ==
    /\ mpc = "applywait" /\ mcur.table = "T1"
    /\ \E w1, w2 \in Workers :
          /\ wpc[w1] = "copying" /\ ManifestTable(wload[w1]) = "T1"
          /\ wpc[w2] = "got" /\ ManifestTable(wload[w2]) = "T1"

\* C7: CreateTable runs with the table's mutex held, as ManifestCopy and
\* ApplyOperations do.
C7_CreateTableHoldsMutex == mpc = "create" => lockHolder[mcur.table] = Migrator

\* C8: the call of migrate that first sees (table, to) for an existing table
\* only records the time, and migrate calls ApplyOperations only once
\* waitProcessorPeriod has passed since the recorded time.
C8_QuiescenceWait ==
    [][ /\ \A t \in Tables, v \in Versions :
              (migrationStarted[t][v] = NotStarted /\ migrationStarted'[t][v] # NotStarted)
                  => /\ migrationStarted'[t][v] = 0
                     /\ mpc' \notin {"applywait", "apply", "create"}
                     /\ rows' = rows /\ cache' = cache
        /\ (mpc = "tick" /\ mpc' = "applywait")
              => migrationStarted[mcur'.table][mcur'.to] >= WaitProcessorPeriod ]_vars

\* migrate has called ApplyOperations for T1, the wait being over.
C8_Witness ==
    /\ mpc = "applywait" /\ mcur.by = "migrate"
    /\ migrationStarted[mcur.table][mcur.to] = WaitProcessorPeriod

\* C9: migrate calls ApplyOperations(table, ops, to) only when no TSV of
\* (table, to - 1) is queued at that moment; when one is queued and the wait
\* is over, the call issues ForceLoad(table) and no DDL.
C9_OldVersionCleared ==
    [][ /\ (mpc = "tick" /\ mpc' = "applywait")
              => ~TSVVersionExists(mcur'.table, mcur'.to - 1)
        /\ \A t \in Tables, offpeak, locked \in BOOLEAN, ops \in OpLists :
              ( /\ mpc = "tick" /\ t \in mrem /\ TableExists(t)
                /\ migrationStarted[t][NewVersion(t)] = WaitProcessorPeriod
                /\ TSVVersionExists(t, NewVersion(t) - 1)
                /\ Gate(t, offpeak, locked, "none") # "skip"
                /\ MigrateTable(t, offpeak, locked, ops, "none") )
              => t \in forceLoad' /\ mpc' # "applywait" /\ rows' = rows ]_vars

\* T1 was migrated to version 1 after its version-0 fragment had been loaded.
C9_Witness ==
    /\ rows["T1"] = {0, 1}
    /\ \E m \in UUIDs : mstate[m] = "Done" /\ murls[m] = {1}

\* C10: with T1 at version 0, fragments of versions 0 and 1 queued, off-peak
\* hours and fair scheduling, the migrator issues ForceLoad(T1), the
\* version-0 fragment is loaded while the cache still shows 0, then
\* ApplyOperations(T1, ops, 1) runs with the off-peak timeout and the cache
\* shows 1 from then on.
C10_MigrationProgress ==
    /\ <>("T1" \in forceLoad /\ TSVVersionExists("T1", 0))
    /\ <>(~TSVVersionExists("T1", 0) /\ cache["T1"] = 0
            /\ \E m \in UUIDs : mstate[m] = "Done" /\ murls[m] = {1})
    /\ <>(mpc = "apply" /\ mcur.table = "T1" /\ mcur.to = 1 /\ ~mcur.forced)
    /\ <>[](cache["T1"] = 1 /\ rows["T1"] = {0, 1})

\* The migration is through: the version-0 fragment is loaded, the version-1
\* fragment still queued, warehouse and cache at version 1.
C10_Witness ==
    /\ cache["T1"] = 1 /\ rows["T1"] = {0, 1}
    /\ tsv \cap {1, 3} = {3}
    /\ \E m \in UUIDs : mstate[m] = "Done" /\ murls[m] = {1} /\ "committed" \in copyLog[m]

\* C11: in a tick, migrate(table, newVersion, ...) is invoked for an outdated
\* table iff newVersion = 0, or the hour is off-peak, or IsForceLoadRequested
\* returned true and TableLocked returned false; a failing probe on-peak
\* skips the table.  A skipped table is left untouched; an invoked migrate
\* shows by what it does (record, create, ForceLoad, ApplyOperations).
C11_MigrationGate ==
    [][ \A t \in Tables, offpeak, locked \in BOOLEAN, fault \in GateFaults :
          LET ops == <<Op("ADD", TRUE)>>
              to == NewVersion(t)
              allowed == \/ to = 0
                         \/ offpeak
                         \/ fault = "none" /\ t \in forceLoad /\ ~TableLocked(t, locked)
          IN (mpc = "tick" /\ t \in mrem /\ MigrateTable(t, offpeak, locked, ops, fault)) =>
               /\ ~allowed => /\ mpc' = Resume(mrem')
                              /\ UNCHANGED <<cache, migrationStarted, forceLoad, mcur>>
               /\ allowed =>
                    /\ migrate(t, to, ops, fault) = "record" => migrationStarted'[t][to] = 0
                    /\ migrate(t, to, ops, fault) = "create" => mpc' = "create"
                    /\ migrate(t, to, ops, fault) = "queued" => t \in forceLoad'
                    /\ migrate(t, to, ops, fault) = "apply" =>
                          /\ mpc' = "applywait"
                          /\ mcur'.forced = (to > 0 /\ ~offpeak) ]_vars

\* An on-peak migration of T1 passed the gate on a force-load request that is
\* still pending, and calls ApplyOperations.
C11_Witness ==
    /\ mpc = "applywait" /\ mcur.by = "migrate" /\ mcur.forced /\ mcur.table = "T1"
    /\ "T1" \in forceLoad

\* C12: on-peak, once the force flag of T1 is set and T1 is not locked by
\* another session, the pending migration to version 1 proceeds without a
\* further request: ApplyOperations(T1, ops, 1) eventually runs with the
\* on-peak timeout.
C12_OnPeakOverride ==
    <>(mpc = "apply" /\ mcur.table = "T1" /\ mcur.to = 1 /\ mcur.forced)

C14_IncrementOnExistingRejected ==
    [][ /\ \A t \in Tables, v \in 0..MaxIncrement, fault \in {"none", "TableExists"} :
              ( /\ mpc = "idle"
                /\ TableExists(t) \/ fault = "TableExists"
                /\ incrementVersion(t, v, fault) )
              => /\ reply' = "err"
                 /\ mpc' = "idle"
                 /\ UNCHANGED <<rows, exists, cache, mcur, lockHolder>>
        /\ (mpc = "apply" /\ mcur.by = "incrementVersion" /\ cache' # cache)
              => /\ ~TableExists(mcur.table)
                 /\ ~mcur.forced
                 /\ reply' = "nil"
                 /\ mcur.to \in rows'[mcur.table]
                 /\ cache' = [cache EXCEPT ![mcur.table] = mcur.to] ]_vars

\* A request was answered with an error while both tables exist, their
\* versions and the cache as the migrator left them.
C14_Witness ==
    /\ reply = "err" /\ mpc = "idle"
    /\ \A t \in Tables : TableExists(t) /\ cache[t] = SetMax(rows[t])

\* C15: a VersionIncrement for a never-created table (no table, no version
\* row) succeeds when nothing fails: it is answered nil, the requested
\* version is the table's row in infra.table_version and its cache entry.
C15_IncrementNeverCreated ==
    [][ ( /\ mpc = "apply" /\ mcur.by = "incrementVersion"
          /\ rows[mcur.table] = {} /\ ~TableExists(mcur.table)
          /\ ApplyOperationsEnd(TRUE, TRUE) )
        => /\ reply' = "nil"
           /\ rows'[mcur.table] = {mcur.to}
           /\ cache'[mcur.table] = mcur.to ]_vars

\* C16: for each manifest it received, a worker ends the loop body with one
\* outcome: LoadDone (the manifest becomes Done) iff LoadManifest succeeded,
\* which takes a committed COPY; LoadError (Pending) iff it failed with a
\* retryable error; neither iff the error is not retryable, and then the
\* manifest stays in Loading without being emitted again.
C16_OneOutcomePerReceipt ==
    [][ /\ \A w \in Workers :
              /\ wpc[w] = "ok" => "committed" \in copyLog[wload[w]]
              /\ (wpc[w] \in {"ok", "retry", "perm"} /\ wpc'[w] = "idle" /\ crashes' = crashes)
                    => /\ wload'[w] = 0
                       /\ wpc[w] = "ok" => mstate'[wload[w]] = "Done"
                       /\ wpc[w] = "retry" => mstate'[wload[w]] = "Pending"
                       /\ wpc[w] = "perm" => /\ mstate[wload[w]] = "Loading"
                                             /\ mstate'[wload[w]] = "Loading"
                                             /\ chan' = chan
        /\ \A m \in UUIDs :
              ( /\ mstate[m] = "Loading" /\ crashes' = crashes
                /\ \A w \in Workers : wload[w] # m
                /\ chan = <<>> \/ Head(chan) # m )
              => /\ mstate'[m] = "Loading"
                 /\ chan' = <<>> \/ Head(chan') # m ]_vars

\* A manifest whose load failed for good: in Loading, its only COPY aborted,
\* held by no worker and not on the channel, the process never restarted.
C16_Witness ==
    /\ crashes = 0 /\ chan = <<>>
    /\ \E m \in UUIDs :
          /\ mstate[m] = "Loading" /\ copyLog[m] = {"aborted"}
          /\ \A w \in Workers : wload[w] # m

\* C17: at startup a manifest found in Loading becomes Done only when its
\* COPY is found committed and is otherwise reset to Pending or left in
\* Loading, and no manifest whose COPY committed before the crash is
\* COPY'd again after the restart.
C17_CrashRecovery ==
    [][ /\ crashes' # crashes =>
              \A m \in UUIDs :
                  mstate[m] = "Loading" =>
                      /\ mstate'[m] \in {"Done", "Pending", "Loading"}
                      /\ mstate'[m] = "Done" => "committed" \in copyLog[m]
        /\ \A w \in Workers :
              (wpc[w] = "got" /\ wpc'[w] = "copying")
                  => "committed" \notin copyLog[wload[w]] ]_vars

\* C18: as long as the filter still holds a message ID (it has not been
\* pushed out by more recent IDs), the handlings of that message add at
\* most one row to tsv: its replays are acknowledged and dropped.
C18_DedupWhileHeld ==
    \A m \in MsgIds : inserted[m] >= 2 => m \in evicted

\* A message delivered twice and never pushed out of the filter: its one
\* handling inserted the fragment, the fragment has since been loaded and
\* its row deleted, and the replay started no second handling.
C18_Witness ==
    \E m \in MsgIds :
        /\ deliveries[m] = 2 /\ m \notin evicted
        /\ inserted[m] = 1 /\ MsgURL(m) \notin tsv
        /\ \A l \in Listeners : handler[l].pc = "idle"

\* C18 as stated: however often a message ID is delivered, to whichever
\* listeners, at most one InsertLoad of its handlings takes effect.
C18_DedupOneInsertion ==
    \A m \in MsgIds : inserted[m] <= 1

\* C19: a row enters tsv only through a handler's InsertLoad, and a handler
\* calls InsertLoad only after the loader answered, during this handling,
\* that the table exists and that it is to be loaded into the warehouse.
C19_IngressAdmission ==
    [][ /\ \A l \in Listeners :
              (handler[l].pc = "insert" /\ handler'[l].pc = "idle")
                  => handler[l].known /\ handler[l].ace
        /\ \A u \in URLs :
              (u \notin tsv /\ u \in tsv')
                  => \E l \in Listeners :
                        /\ handler[l].pc = "insert" /\ MsgURL(handler[l].msg) = u
                        /\ handler[l].known /\ handler[l].ace ]_vars

\* One listener queued its fragment, another turned its message away (table
\* unknown, or not to be loaded) and left no row behind.
C19_Witness ==
    \E l, k \in Listeners :
        /\ handler[l].pc = "idle" /\ handler[l].res = "queued"
        /\ MsgURL(handler[l].msg) \in tsv
        /\ handler[k].pc = "idle" /\ handler[k].res \in {"unknown", "skipped"}
        /\ MsgURL(handler[k].msg) \notin tsv

\* C20: a handler that meets a table the loader does not know forces a
\* reload before it asks TableExists, and returns the "no metadata" error
\* only after having forced one.
C20_ReloadBeforeError ==
    [][ \A l \in Listeners :
            /\ ( /\ handler[l].pc = "lookup" /\ handler'[l].pc = "exists"
                 /\ ~LoaderTableExists(MsgTable(handler[l].msg)) )
                    => handler'[l].forced
            /\ (handler[l].pc = "exists" /\ handler'[l].res = "unknown")
                    => handler[l].forced ]_vars

\* C21: Handle returns nil (the listener then acknowledges the message) only
\* from the do-not-load return, with the store untouched, or after an
\* InsertLoad that succeeded, with the fragment's row in tsv; every other
\* return (parse failure, table unknown, InsertLoad failure) carries an
\* error and the handling has left the metadata store unchanged.
C21_AckOnlyOnSkipOrInsert ==
    [][ /\ \A l \in Listeners :
              (handler'[l] # handler[l] /\ handler'[l].pc = "idle") =>
                  /\ handler'[l].ret \in {"nil", "err"}
                  /\ handler'[l].ret = "nil" =>
                        \/ /\ handler[l].pc = "ace"
                           /\ ~LoadIntoAce(MsgTable(handler[l].msg))
                           /\ UNCHANGED storeVars
                        \/ /\ handler[l].pc = "insert"
                           /\ MsgURL(handler[l].msg) \in tsv'
                  /\ handler'[l].ret = "err" =>
                        /\ UNCHANGED storeVars
                        /\ \/ handler[l].pc = "idle"
                           \/ /\ handler[l].pc = "exists"
                              /\ ~LoaderTableExists(MsgTable(handler[l].msg))
                           \/ handler[l].pc = "insert"
        /\ \A u \in URLs :
              (u \notin tsv /\ u \in tsv') =>
                  \E k \in Listeners : handler'[k] # handler[k] /\ handler'[k].ret = "nil" ]_vars

\* One listener returned the error of a failed InsertLoad and the fragment's
\* row is not in tsv; the other returned nil for a fragment it inserted.
C21_Witness ==
    \E l, k \in Listeners :
        /\ handler[l].pc = "idle" /\ handler[l].res = "error" /\ handler[l].ret = "err"
        /\ handler[l].known /\ handler[l].ace
        /\ MsgURL(handler[l].msg) \notin tsv
        /\ handler[k].pc = "idle" /\ handler[k].ret = "nil" /\ handler[k].res = "queued"
        /\ MsgURL(handler[k].msg) \in tsv

\* C22: whenever LoadReady assembles a manifest for a table, at that moment
\* the table's ready rows number at least LoadCountTrigger, or one of them
\* has reached LoadAgeTrigger, or the table has a force_load row; with none
\* of the three no manifest is assembled for the table.
C22_AssemblyNeedsTrigger ==
    [][ \A t \in Tables :
            (\E m \in UUIDs :
                /\ mstate[m] = "none" /\ mstate'[m] # "none"
                /\ \A u \in murls'[m] : FragTable(u) = t)
            => \/ Cardinality(ReadyRows(t)) >= LoadCountTrigger
               \/ ReadyRows(t) \cap aged # {}
               \/ t \in forceLoad ]_vars

\* A manifest of a single row that has not reached the age trigger: it was
\* assembled on a force_load row, which the assembly cleared; another row of
\* the same table and version waits in tsv with no trigger holding.
C22_Witness ==
    \E m \in UUIDs :
        /\ Live(m) /\ Cardinality(murls[m]) = 1 /\ murls[m] \cap aged = {}
        /\ ManifestTable(m) \notin forceLoad
        /\ Cardinality(ReadyRows(ManifestTable(m))) = 1
        /\ ReadyRows(ManifestTable(m)) \cap aged = {}

C25_FifoPerTable ==
    [][ \A w \in Workers :
            (wpc[w] = "got" /\ wpc'[w] = "copying") =>
                \A a \in UUIDs :
                    ( /\ a < wload[w] /\ mstate[a] # "none"
                      /\ ManifestTable(a) = ManifestTable(wload[w]) )
                    => copyLog[a] # {} ]_vars

\* C26: on SIGINT the LoadReady channel is closed only after the migrator
\* loop has exited, the metrics client is closed only after the channel is
\* closed and every worker has finished, and the process exits only after
\* the metrics client is closed.
C26_ShutdownOrder ==
    /\ ChanClosed => mpc = "stopped"
    /\ StatsClosed => (ChanClosed /\ \A w \in Workers : wpc[w] = "exited")
    /\ sdpc = "exited" => StatsClosed

\* C27: Migrator.Close meets the loop only between ticks and version
\* increments, returns only after the loop goroutine has exited, and from
\* then on the migrator starts no CreateTable or ApplyOperations and leaves
\* the warehouse's versions and the Version Cache alone.
C27_CloseWaitsForLoop ==
    [][ /\ (mpc # "closing" /\ mpc' = "closing") =>
              (mpc = "idle" /\ mcur = NoCall /\ mrem = {})
        /\ MigratorClosed' => mpc' = "stopped"
        /\ mpc \in {"closing", "stopped"} =>
              /\ mpc' \in {"closing", "stopped"}
              /\ UNCHANGED <<cache, rows, exists, mcur, mrem>>
              /\ \A t \in Tables : lockHolder'[t] = Migrator => lockHolder[t] = Migrator ]_vars

\* Close was called during a tick that went on to raise T1 to version 1;
\* it has returned, the loop has exited and the workers are still loading.
C27_Witness ==
    /\ MigratorClosed /\ mpc = "stopped"
    /\ rows["T1"] = {0, 1} /\ cache["T1"] = 1
    /\ \E w \in Workers : wpc[w] = "copying"

\* C28: when the initial load of the Metadata Loader has failed, main of the
\* ingress process goes no further: it starts neither Crank nor a listener.
C28_InitialLoadFailureIsFatal ==
    lpc = "failed" => ipc = "newLoader"

\* C29: NewMetadataLoader returns a loader only after a fetch that
\* succeeded, returns an error only after a failed fetch with the initial
\* load timeout run out, and always returns.
C29_InitialLoadBounded ==
    /\ [][ /\ (lpc = "new" /\ lpc' = "ready") =>
                  \E doc \in Docs : InitialFetch(doc, TRUE)
           /\ (lpc = "new" /\ lpc' = "failed") =>
                  /\ ltime = MaxInitRetries
                  /\ \E doc \in Docs : InitialFetch(doc, FALSE) ]_vars
    /\ <>(lpc # "new")

\* NewMetadataLoader has returned an error: every fetch failed until the
\* timeout, and nothing was cached.
C29_Witness ==
    /\ lpc = "failed" /\ ltime = MaxInitRetries /\ bpcache = EmptyDoc

\* C30: while Crank runs, a reload whose fetch succeeds replaces the cached
\* document by the one fetched and a reload whose fetch fails leaves it as
\* it was; once Close was called the cached document changes no more.
C30_RefreshKeepsLastFetched ==
    [][ /\ \A doc \in Docs :
              (lpc = "cranking" /\ CrankRefresh(doc, TRUE)) => bpcache' = doc
        /\ ( /\ lpc = "cranking"
             /\ \E doc \in Docs : CrankRefresh(doc, FALSE)
             /\ ~ \E doc \in Docs : CrankRefresh(doc, TRUE) )
                => bpcache' = bpcache
        /\ lpc = "closed" => (bpcache' = bpcache /\ lpc' = "closed") ]_vars

\* The loader was closed after a failed fetch: the readers still see the
\* document fetched last.
C30_Witness ==
    /\ lpc = "closed" /\ ltime > 0 /\ bpcache # EmptyDoc /\ bpcache["T2"] = "skip"

\* C31: the force-load flag of a table is cleared by the migrator acting on
\* it: when the ApplyOperations of a migration admitted on-peak through the
\* flag has succeeded the flag is no longer set, and a flag is cleared by
\* no step other than such a migration of its table.
C31_ForceFlagClearedByMigrator ==
    [][ /\ (mpc = "apply" /\ mcur.forced /\ ApplyOperationsEnd(TRUE, TRUE)) =>
              mcur.table \notin forceLoad'
        /\ \A t \in Tables :
              (t \in forceLoad /\ t \notin forceLoad') =>
                  (mpc = "apply" /\ mcur.table = t) ]_vars

\* C32: shutdown terminates, with workers and with n_workers = 0: once
\* SIGINT has arrived Migrator.Close returns, every worker that was started
\* leaves its loop and is done, for good, workerGroup.Wait returns and the
\* process exits.
C32_ShutdownTerminates ==
    /\ (sdpc # "sigc") ~> MigratorClosed
    /\ (sdpc # "sigc") ~> (\A w \in Workers : w <= poolSize => wpc[w] = "exited")
    /\ (sdpc # "sigc") ~> (sdpc = "exited")
    /\ [][\A w \in Workers : wpc[w] = "exited" => wpc'[w] = "exited"]_vars
    /\ [](sdpc = "exited" => \A w \in Workers : w <= poolSize => wpc[w] = "exited")

\* The process has exited after its workers loaded a manifest that was
\* emitted before the channel was closed.
C32_Witness ==
    /\ sdpc = "exited" /\ poolSize = NumWorkers
    /\ \E m \in UUIDs : mstate[m] = "Done"

\* C33: CheckLoadStatus decides in this order: a query error at the step
\* reached gives the error and no status; a recent matching query that is
\* not Done gives InProgress; no historical row gives NotFound; aborted = 1
\* gives Failed; a COMMIT for the xid gives Complete; an undone transaction
\* gives Failed; otherwise InProgress.
C33_LoadStatusDecision ==
    lsq.answer # NoAnswer =>
        LET a == lsq.answer
            reached ==
                IF lsq.recents # 0 THEN 1
                ELSE IF lsq.history \in {"none", "aborted"} THEN 2
                ELSE IF lsq.commits # 0 THEN 3
                ELSE 4
            failed == lsq.errAt \in 1..reached
        IN /\ a.err = failed
           /\ failed => a.status = ""
           /\ ~failed =>
                 a.status = CASE lsq.recents # 0 -> "InProgress"
                              [] lsq.recents = 0 /\ lsq.history = "none" -> "NotFound"
                              [] lsq.recents = 0 /\ lsq.history = "aborted" -> "Failed"
                              [] lsq.recents = 0 /\ lsq.history = "ran"
                                   /\ lsq.commits # 0 -> "Complete"
                              [] lsq.recents = 0 /\ lsq.history = "ran"
                                   /\ lsq.commits = 0 /\ lsq.undone # 0 -> "Failed"
                              [] OTHER -> "InProgress"

\* A transaction with a COMMIT and an undone row, no query failing: Complete.
C33_Witness ==
    /\ lsq.answer = Status("Complete")
    /\ lsq.history = "ran" /\ lsq.commits # 0 /\ lsq.undone # 0 /\ lsq.errAt = 0

\* C35: for every operation list with a DROP_EVENT at any position,
\* CreateTable returns success (migrate goes on to set the Version Cache)
\* and executes no statement: no transaction is opened, no table is made and
\* no version row written.
C35_DropEventAnywhereIsNoop ==
    [][ \A t \in Tables, ops \in AnyOpLists :
          ( /\ mpc = "tick" /\ t \in mrem /\ ~TableExists(t) /\ HasDropEvent(ops)
            /\ MigrateTable(t, TRUE, FALSE, ops, "none") ) =>
               /\ cache'[t] = NewVersion(t)
               /\ mpc' # "create"
               /\ UNCHANGED <<rows, exists>> ]_vars

\* C34: ApplyOperations is all-or-nothing: when the version assertion
\* fails, a statement fails (the timeout, an operation, the version insert)
\* or an operation has an unexpected action, nothing of the call persists
\* in the warehouse, an error is returned, and the Version Cache is left as
\* it was.
C34_ApplyAllOrNothing ==
    [][ \A sqlOK, commitOK \in BOOLEAN :
          LET failed == \/ ~expectVersion(rows, mcur.table, mcur.to - 1)
                        \/ ~sqlOK
                        \/ \E i \in 1..Len(mcur.ops) :
                              mcur.ops[i].Action \notin
                                {"ADD", "DELETE", "RENAME", "REQUEST_DROP_EVENT",
                                 "DROP_EVENT", "CANCEL_DROP_EVENT"}
          IN (mpc = "apply" /\ failed /\ ApplyOperationsEnd(sqlOK, commitOK)) =>
                /\ UNCHANGED <<rows, exists, cache>>
                /\ lockHolder'[mcur.table] = Free
                /\ mcur.by = "incrementVersion" => reply' = "err" ]_vars

\* ApplyOperations of the migration of T1 is in its transaction with an
\* operation of unexpected action.
C34_Witness ==
    /\ mpc = "apply" /\ mcur.by = "migrate" /\ mcur.table = "T1"
    /\ mcur.ops = <<Op("BOGUS", FALSE)>>
    /\ lockHolder["T1"] = Migrator

\* C36: migrate passes onpeakMigrationTimeoutMs to ApplyOperations exactly
\* when the tick admitted the migration on-peak through the force-load flag
\* (flag set, table not locked), and offpeakMigrationTimeoutMs otherwise, an
\* off-peak tick for a table whose flag is set included; the call keeps its
\* timeout until it returns.
C36_TimeoutSelection ==
    [][ /\ \A t \in Tables, offpeak, locked \in BOOLEAN, fault \in GateFaults :
              LET onPeakPath == /\ NewVersion(t) > 0 /\ ~offpeak /\ fault = "none"
                                /\ t \in forceLoad /\ ~TableLocked(t, locked)
              IN ( /\ mpc = "tick" /\ t \in mrem
                   /\ MigrateTable(t, offpeak, locked, <<Op("ADD", TRUE)>>, fault)
                   /\ mpc' = "applywait" ) =>
                      timeoutMs(mcur'.forced, t \in forceLoad) =
                          IF onPeakPath THEN "onpeakMigrationTimeoutMs"
                          ELSE "offpeakMigrationTimeoutMs"
        /\ (mpc \in {"applywait", "apply"} /\ mpc' = "apply") =>
              mcur'.forced = mcur.forced ]_vars

\* An off-peak tick calls ApplyOperations for T1 while the force-load flag of
\* T1 is set: the call is not forced.
C36_Witness ==
    /\ mpc = "apply" /\ mcur.by = "migrate" /\ mcur.table = "T1" /\ ~mcur.forced
    /\ "T1" \in forceLoad

\* C37: every VersionIncrement request the loop has received gets exactly
\* one value on its response slot: it is answered eventually, a value is
\* sent only to a request that waits for one, and the loop does not return
\* with a request in its hands.
C37_ReceivedRequestAnswered ==
    /\ RequestReceived ~> RequestAnswered
    /\ [][ /\ reply' \in {"nil", "err"} /\ reply' # reply => reply = "sending"
           /\ RequestAnswered => reply' \in {reply, "sending"} ]_vars
    /\ [](mpc \in {"closing", "stopped"} => ~RequestReceived)

\* Migrator.Close was called while the loop worked on a request; the request
\* was answered and the loop has returned.
C37_Witness ==
    /\ mpc = "stopped" /\ reply = "nil" /\ rows["T2"] # {}

\* C37 as stated: every request of a control handler, whenever it is sent,
\* is answered.
C37_EveryRequestAnswered ==
    (reply = "sending") ~> RequestAnswered

\* C38: whenever the COPY of a manifest executes, every member fragment's
\* declared version is the version infra.table_version records for the
\* manifest's table at that moment.
C38_CopyAtWarehouseVersion ==
    [][ \A w \in Workers :
          (wpc[w] = "copying" /\ ManifestCopyEnd(w, TRUE, TRUE, FALSE)) =>
             LET t == ManifestTable(wload[w])
             IN \A u \in murls[wload[w]] :
                   /\ rows[t] # {}
                   /\ FragVersion(u) = SetMax(rows[t]) ]_vars

\* C39: getTableLock holds the registry lock exactly while it looks up or
\* creates the entry and has released it before the table mutex is
\* acquired; a table gets at most one mutex and every caller gets that one;
\* a table mutex is held only by a caller inside its operation, one at a
\* time per table, and is free again when the operation has returned, with
\* or without error; and while any call is under way some call can take
\* a step.
C39_RegistryConsistentNoDeadlock ==
    /\ [](\A c \in Callers :
            /\ (lockLock = c) <=> (gpc[c].pc \in {"lookup", "create", "return"})
            /\ gpc[c].pc \in {"return", "lock", "work"} =>
                  /\ gpc[c].mutex # 0
                  /\ gpc[c].mutex = tableLocks[gpc[c].table]
            /\ gpc[c].pc = "idle" => \A m \in 1..Len(mutexes) : mutexes[m] # c)
    /\ [](/\ Len(mutexes) = Cardinality({t \in Tables : tableLocks[t] # 0})
          /\ \A t, u \in Tables :
                tableLocks[t] # 0 /\ tableLocks[t] = tableLocks[u] => t = u
          /\ \A m \in 1..Len(mutexes) :
                mutexes[m] # Free =>
                   gpc[mutexes[m]].pc = "work" /\ gpc[mutexes[m]].mutex = m
          /\ \A c, d \in Callers :
                /\ gpc[c].pc = "work" /\ gpc[d].pc = "work"
                /\ gpc[c].table = gpc[d].table
                => c = d)
    /\ [][\A t \in Tables : tableLocks[t] # 0 => tableLocks'[t] = tableLocks[t]]_vars
    /\ []((\E c \in Callers : gpc[c].pc # "idle") => ENABLED (\E c \in Callers : CallStep(c)))

\* The migrator and both workers are in calls for T1: one inside its
\* transaction with T1's mutex, the others waiting for that same mutex, the
\* registry lock free.
C39_Witness ==
    /\ Cardinality({c \in Callers : gpc[c].pc = "work" /\ gpc[c].table = "T1"}) = 1
    /\ Cardinality({c \in Callers : gpc[c].pc = "lock" /\ gpc[c].table = "T1"}) = 2
    /\ lockLock = Free
    /\ tableLocks["T2"] # 0

====
